---- MODULE Spec2Model ----
(***************************************************************************)
(* git-patch: the diff parser (lib/diff-parser.js, kept in src/lib/        *)
(* selector.js), the selector resolver (lib/selector.js), the patch        *)
(* builder (lib/patch-builder.js) and the commands that drive them.  Text  *)
(* is modelled as TLA+ strings: a diff is one string with "\n" line        *)
(* breaks, exactly as `git diff` hands it over.                            *)
(***************************************************************************)
EXTENDS Integers, Sequences, FiniteSets, TLC

(***************************************************************************)
(* JavaScript string primitives used by the code.                          *)
(***************************************************************************)

\* JS null.  Optional values are sequences of length 0 (null) or 1.
Null == <<>>

Some(v) == <<v>>

\* `const x = v; ...` : the body evaluated with x bound to the value v.
With(v, Body(_)) == Body(v)

\* JS truthiness of an optional string: null and "" are falsy.
Truthy(opt) == opt # Null /\ opt[1] # ""

\* String.prototype.substring on 1-based inclusive positions a..b, clamped to
\* the string as JavaScript clamps it.
Sub(s, a, b) ==
  LET lo == IF a < 1 THEN 1 ELSE a
      hi == IF b > Len(s) THEN Len(s) ELSE b
  IN  IF lo > hi THEN "" ELSE SubSeq(s, lo, hi)

\* The character at 1-based position i ("" outside the string).
CharAt(s, i) == Sub(s, i, i)

\* String.prototype.startsWith
StartsWith(s, p) == Len(s) >= Len(p) /\ Sub(s, 1, Len(p)) = p

\* String.prototype.slice(n) for 0 <= n
Slice(s, n) == Sub(s, n + 1, Len(s))

\* The characters String.prototype.trim removes (those the inputs can hold).
IsSpace(c) == c \in {" ", "\n", "\t"}

RECURSIVE TrimStart(_)
TrimStart(s) ==
  IF s # "" /\ IsSpace(Head(s)) THEN TrimStart(Tail(s)) ELSE s

RECURSIVE TrimEnd(_)
TrimEnd(s) ==
  IF s # "" /\ IsSpace(CharAt(s, Len(s)))
  THEN TrimEnd(Sub(s, 1, Len(s) - 1))
  ELSE s

\* String.prototype.trim
Trim(s) == TrimEnd(TrimStart(s))

\* The ascending sequence of a set of numbers.
RECURSIVE SortedSeq(_)
SortedSeq(S) ==
  IF S = {} THEN <<>>
  ELSE LET m == CHOOSE a \in S : \A b \in S : a <= b
       IN  <<m>> \o SortedSeq(S \ {m})

\* The positions of the line breaks of s, ascending.
Breaks(s) == SortedSeq({i \in 1..Len(s) : CharAt(s, i) = "\n"})

\* String.prototype.split("\n"): the pieces between consecutive line breaks
\* (one more piece than there are breaks; a piece may be empty).
SplitLines(s) ==
  With(Breaks(s), LAMBDA nl :
    [k \in 1..(Len(nl) + 1) |->
       Sub(s, IF k = 1 THEN 1 ELSE nl[k - 1] + 1,
              IF k = Len(nl) + 1 THEN Len(s) ELSE nl[k] - 1)])

\* The lines of a text: its pieces, without the empty piece a final newline
\* leaves.
TextLines(s) ==
  With(SplitLines(s), LAMBDA p :
    IF p[Len(p)] = "" THEN SubSeq(p, 1, Len(p) - 1) ELSE p)

\* Array.prototype.join(sep); the empty array joins to "".
RECURSIVE Join(_, _)
Join(parts, sep) ==
  IF parts = <<>> THEN ""
  ELSE IF Len(parts) = 1 THEN parts[1]
  ELSE parts[1] \o sep \o Join(Tail(parts), sep)

IsDigit(c) == c \in {"0", "1", "2", "3", "4", "5", "6", "7", "8", "9"}

DigitVal(c) ==
  CASE c = "0" -> 0 [] c = "1" -> 1 [] c = "2" -> 2 [] c = "3" -> 3
    [] c = "4" -> 4 [] c = "5" -> 5 [] c = "6" -> 6 [] c = "7" -> 7
    [] c = "8" -> 8 [] c = "9" -> 9

\* parseInt(s, 10) / Number(s) of a digits-only string.
RECURSIVE ParseInt(_)
ParseInt(s) ==
  IF s = "" THEN 0
  ELSE 10 * ParseInt(Sub(s, 1, Len(s) - 1)) + DigitVal(CharAt(s, Len(s)))

\* The end (exclusive) of the run of digits of s that starts at position i: \d+.
RECURSIVE DigitsEnd(_, _)
DigitsEnd(s, i) ==
  IF i <= Len(s) /\ IsDigit(CharAt(s, i)) THEN DigitsEnd(s, i + 1) ELSE i

(***************************************************************************)
(* The diff parser.                                                        *)
(***************************************************************************)

\* A resetHunkIds that leaves the counter as the last call left it.
resetHunkIdsKeep(counter) == counter

\* resetHunkIds: the module-level counter back to 0.
resetHunkIds(counter) == 0

\* A nextHunkId that forgets the increment.
nextHunkIdStuck(counter) == counter

\* nextHunkId: ++hunkIdCounter; the id handed out is the new counter value.
nextHunkId(counter) == counter + 1

\* One optional ",count" group of the hunk header grammar: (?:,(\d+))?  read
\* at position i.  group is the count's text (Null when the group is absent).
CountGroup(s, i) ==
  With(DigitsEnd(s, i + 1), LAMBDA e :
    IF CharAt(s, i) = "," /\ e > i + 1
    THEN [group |-> Some(Sub(s, i + 1, e - 1)), next |-> e]
    ELSE [group |-> Null, next |-> i])

\* parseHunkHeader: /^@@ -(\d+)(?:,(\d+))? \+(\d+)(?:,(\d+))? @@(.*)$/ .
\* Null when the line does not match.
parseHunkHeader(line) ==
  IF ~StartsWith(line, "@@ -") THEN Null
  ELSE
    With(DigitsEnd(line, 5), LAMBDA e1 :
    With(CountGroup(line, e1), LAMBDA g2 :
    With(g2.next + 2, LAMBDA p3 :
    With(DigitsEnd(line, p3), LAMBDA e3 :
    With(CountGroup(line, e3), LAMBDA g4 :
        IF e1 > 5
           /\ Sub(line, g2.next, g2.next + 1) = " +"
           /\ e3 > p3
           /\ Sub(line, g4.next, g4.next + 2) = " @@"
        THEN Some([oldStart |-> ParseInt(Sub(line, 5, e1 - 1)),
                   oldCount |-> IF g2.group # Null THEN ParseInt(g2.group[1]) ELSE 1,
                   newStart |-> ParseInt(Sub(line, p3, e3 - 1)),
                   newCount |-> IF g4.group # Null THEN ParseInt(g4.group[1]) ELSE 1,
                   context  |-> With(Trim(Slice(line, g4.next + 2)), LAMBDA c :
                                  IF c = "" THEN Null ELSE Some(c)),
                   raw      |-> line])
        ELSE Null)))))

\* classifyLine: by the first character of the raw line.
classifyLine(raw) ==
  IF StartsWith(raw, "+") THEN "added"
  ELSE IF StartsWith(raw, "-") THEN "removed"
  ELSE IF StartsWith(raw, "\\") THEN "no-newline"
  ELSE "context"


\* The prefixes of the header lines parseFileDiff keeps as metadata.
MetadataPrefixes ==
  {"index ", "old mode", "new mode", "new file", "deleted file",
   "similarity index", "rename from", "rename to", "copy from", "copy to",
   "Binary files"}

\* line.match(/^diff --git a\/(.+) b\/(.+)$/): the first group is greedy, so
\* the separator " b/" is the last one that leaves both groups non-empty.
\* Null when the line does not match.
MatchDiffGit(line) ==
  IF ~StartsWith(line, "diff --git a/") THEN Null
  ELSE
    LET rest == Slice(line, 13)
        seps == {k \in 2..(Len(rest) - 3) : Sub(rest, k, k + 2) = " b/"}
    IN  IF seps = {} THEN Null
        ELSE LET k == CHOOSE m \in seps : \A n \in seps : n <= m
             IN  Some([old |-> Sub(rest, 1, k - 1), new |-> Slice(rest, k + 2)])

\* The per-file fields before any header line is read.
EmptyHeader ==
  [file |-> Null, diffOldFile |-> Null, diffNewFile |-> Null,
   oldFile |-> Null, newFile |-> Null, metadataLines |-> <<>>]

\* parseFileDiff, first loop: the file header lines, up to the first line
\* that starts with "@@" (or the end).  Returns the fields and the index
\* where the loop stopped (1-based).
RECURSIVE HeaderLoop(_, _, _)
HeaderLoop(lines, i, h) ==
  IF i > Len(lines) THEN [h |-> h, i |-> i]
  ELSE
    LET line == lines[i] IN
    IF StartsWith(line, "diff --git") THEN
      LET m == MatchDiffGit(line) IN
      HeaderLoop(lines, i + 1,
        IF m # Null
        THEN [h EXCEPT !.diffOldFile = Some("a/" \o m[1].old),
                       !.diffNewFile = Some("b/" \o m[1].new),
                       !.oldFile = Some("a/" \o m[1].old),
                       !.newFile = Some("b/" \o m[1].new),
                       !.file = Some(m[1].new)]
        ELSE h)
    ELSE IF \E p \in MetadataPrefixes : StartsWith(line, p) THEN
      HeaderLoop(lines, i + 1,
                 [h EXCEPT !.metadataLines = Append(@, line)])
    ELSE IF StartsWith(line, "--- ") THEN
      HeaderLoop(lines, i + 1, [h EXCEPT !.oldFile = Some(Slice(line, 4))])
    ELSE IF StartsWith(line, "+++ ") THEN
      LET nf == Slice(line, 4) IN
      HeaderLoop(lines, i + 1,
        [h EXCEPT !.newFile = Some(nf),
                  !.file = IF StartsWith(nf, "b/") THEN Some(Slice(nf, 2)) ELSE @])
    ELSE IF StartsWith(line, "@@") THEN [h |-> h, i |-> i]
    ELSE HeaderLoop(lines, i + 1, h)

\* A body loop in which a no-newline marker advances both line counters.
RECURSIVE BodyLoopMarkerCounts(_, _, _)
BodyLoopMarkerCounts(lines, i, b) ==
  IF ~(i <= Len(lines) /\ ~StartsWith(lines[i], "@@")) THEN [b |-> b, i |-> i]
  ELSE
    LET raw == lines[i]
        type == classifyLine(raw)
    IN
    IF raw = "" /\ i = Len(lines) THEN BodyLoopMarkerCounts(lines, i + 1, b)
    ELSE IF type = "no-newline" THEN
      BodyLoopMarkerCounts(lines, i + 1,
        [b EXCEPT !.hunkLines = Append(@, [type |-> type, content |-> raw,
                                           oldLine |-> Null, newLine |-> Null]),
                  !.oldLine = @ + 1, !.newLine = @ + 1])
    ELSE IF type = "context" THEN
      BodyLoopMarkerCounts(lines, i + 1,
        [b EXCEPT !.hunkLines = Append(@, [type |-> type, content |-> raw,
                                           oldLine |-> Some(b.oldLine),
                                           newLine |-> Some(b.newLine)]),
                  !.oldLine = @ + 1, !.newLine = @ + 1])
    ELSE IF type = "removed" THEN
      BodyLoopMarkerCounts(lines, i + 1,
        [b EXCEPT !.hunkLines = Append(@, [type |-> type, content |-> raw,
                                           oldLine |-> Some(b.oldLine),
                                           newLine |-> Null]),
                  !.oldLine = @ + 1, !.removedCount = @ + 1])
    ELSE
      BodyLoopMarkerCounts(lines, i + 1,
        [b EXCEPT !.hunkLines = Append(@, [type |-> type, content |-> raw,
                                           oldLine |-> Null,
                                           newLine |-> Some(b.newLine)]),
                  !.newLine = @ + 1, !.addedCount = @ + 1])

\* parseFileDiff, innermost loop: the lines of one hunk, up to the next line
\* that starts with "@@" (or the end).  b carries hunkLines, the running
\* oldLine / newLine and the added / removed counts.
RECURSIVE BodyLoop(_, _, _)
BodyLoop(lines, i, b) ==
  IF ~(i <= Len(lines) /\ ~StartsWith(lines[i], "@@")) THEN [b |-> b, i |-> i]
  ELSE
    LET raw == lines[i]
        type == classifyLine(raw)
    IN
    IF raw = "" /\ i = Len(lines) THEN BodyLoop(lines, i + 1, b)
    ELSE IF type = "no-newline" THEN
      BodyLoop(lines, i + 1,
        [b EXCEPT !.hunkLines = Append(@, [type |-> type, content |-> raw,
                                           oldLine |-> Null, newLine |-> Null])])
    ELSE IF type = "context" THEN
      BodyLoop(lines, i + 1,
        [b EXCEPT !.hunkLines = Append(@, [type |-> type, content |-> raw,
                                           oldLine |-> Some(b.oldLine),
                                           newLine |-> Some(b.newLine)]),
                  !.oldLine = @ + 1, !.newLine = @ + 1])
    ELSE IF type = "removed" THEN
      BodyLoop(lines, i + 1,
        [b EXCEPT !.hunkLines = Append(@, [type |-> type, content |-> raw,
                                           oldLine |-> Some(b.oldLine),
                                           newLine |-> Null]),
                  !.oldLine = @ + 1, !.removedCount = @ + 1])
    ELSE
      BodyLoop(lines, i + 1,
        [b EXCEPT !.hunkLines = Append(@, [type |-> type, content |-> raw,
                                           oldLine |-> Null,
                                           newLine |-> Some(b.newLine)]),
                  !.newLine = @ + 1, !.addedCount = @ + 1])

\* A hunk loop in which a line that starts with "@@" and fails
\* parseHunkHeader takes a hunk id with it.
RECURSIVE HunkLoopCountsMalformed(_, _, _, _)
HunkLoopCountsMalformed(lines, i, hunks, counter) ==
  IF i > Len(lines) THEN [hunks |-> hunks, counter |-> counter]
  ELSE IF ~StartsWith(lines[i], "@@")
  THEN HunkLoopCountsMalformed(lines, i + 1, hunks, counter)
  ELSE
    With(parseHunkHeader(lines[i]), LAMBDA header :
    IF header = Null
    THEN HunkLoopCountsMalformed(lines, i + 1, hunks, nextHunkId(counter))
    ELSE
      With(BodyLoop(lines, i + 1,
                    [hunkLines |-> <<>>, oldLine |-> header[1].oldStart,
                     newLine |-> header[1].newStart,
                     addedCount |-> 0, removedCount |-> 0]), LAMBDA r :
      With(nextHunkId(counter), LAMBDA id :
        HunkLoopCountsMalformed(lines, r.i,
                 Append(hunks,
                        [id |-> id,
                         header |-> header[1].raw,
                         oldStart |-> header[1].oldStart,
                         oldCount |-> header[1].oldCount,
                         newStart |-> header[1].newStart,
                         newCount |-> header[1].newCount,
                         context |-> header[1].context,
                         lines |-> r.b.hunkLines,
                         addedCount |-> r.b.addedCount,
                         removedCount |-> r.b.removedCount]),
                 id))))

\* parseFileDiff, second loop: the hunks.  A line that does not start with
\* "@@", or that starts with it and fails parseHunkHeader, is skipped.
\* Returns the hunks and the counter after the ids handed out.
RECURSIVE HunkLoop(_, _, _, _)
HunkLoop(lines, i, hunks, counter) ==
  IF i > Len(lines) THEN [hunks |-> hunks, counter |-> counter]
  ELSE IF ~StartsWith(lines[i], "@@") THEN HunkLoop(lines, i + 1, hunks, counter)
  ELSE
    With(parseHunkHeader(lines[i]), LAMBDA header :
    IF header = Null THEN HunkLoop(lines, i + 1, hunks, counter)
    ELSE
      With(BodyLoop(lines, i + 1,
                    [hunkLines |-> <<>>, oldLine |-> header[1].oldStart,
                     newLine |-> header[1].newStart,
                     addedCount |-> 0, removedCount |-> 0]), LAMBDA r :
      With(nextHunkId(counter), LAMBDA id :
        HunkLoop(lines, r.i,
                 Append(hunks,
                        [id |-> id,
                         header |-> header[1].raw,
                         oldStart |-> header[1].oldStart,
                         oldCount |-> header[1].oldCount,
                         newStart |-> header[1].newStart,
                         newCount |-> header[1].newCount,
                         context |-> header[1].context,
                         lines |-> r.b.hunkLines,
                         addedCount |-> r.b.addedCount,
                         removedCount |-> r.b.removedCount]),
                 id))))

\* parseFileDiff: one fragment to a FileDiff, with the counter threaded
\* through (the code's module-level hunkIdCounter).
parseFileDiff(chunk, counter) ==
  With(SplitLines(chunk), LAMBDA lines :
  With(HeaderLoop(lines, 1, EmptyHeader), LAMBDA hd :
  With(HunkLoop(lines, hd.i, <<>>, counter), LAMBDA hs :
      [fd |-> [file |-> hd.h.file,
               diffOldFile |-> hd.h.diffOldFile,
               diffNewFile |-> hd.h.diffNewFile,
               oldFile |-> hd.h.oldFile,
               newFile |-> hd.h.newFile,
               metadataLines |-> hd.h.metadataLines,
               hunks |-> hs.hunks],
       counter |-> hs.counter])))

\* raw.split(/^(?=diff --git )/m): the places a fragment starts, i.e. every
\* position after the first that begins a line and reads "diff --git ".
ChunkStarts(raw) ==
  {p \in 2..Len(raw) : CharAt(raw, p - 1) = "\n"
                       /\ Sub(raw, p, p + 10) = "diff --git "}

\* The fragments between consecutive places of ChunkStarts, in order.
RECURSIVE ChunksFrom(_, _, _)
ChunksFrom(raw, p, starts) ==
  IF starts = {} THEN <<Sub(raw, p, Len(raw))>>
  ELSE LET q == CHOOSE m \in starts : \A n \in starts : m <= n
       IN  <<Sub(raw, p, q - 1)>> \o ChunksFrom(raw, q, starts \ {q})

\* .filter((c) => c.trim())
SplitChunks(raw) ==
  SelectSeq(ChunksFrom(raw, 1, ChunkStarts(raw)), LAMBDA c : Trim(c) # "")

\* chunks.map(parseFileDiff): each fragment in order, the counter running on.
RECURSIVE MapParse(_, _)
MapParse(chunks, counter) ==
  IF chunks = <<>> THEN [files |-> <<>>, counter |-> counter]
  ELSE With(parseFileDiff(Head(chunks), counter), LAMBDA r :
       With(MapParse(Tail(chunks), r.counter), LAMBDA t :
         [files |-> <<r.fd>> \o t.files, counter |-> t.counter]))

\* A filter that keeps every file with a display path.
KeepFileNamed(f) == Truthy(f.file)

\* A filter that keeps every file with a hunk.
KeepFileWithHunks(f) == Len(f.hunks) > 0

\* .filter((f) => f.file && f.hunks.length > 0)
KeepFile(f) == Truthy(f.file) /\ Len(f.hunks) > 0

\* parseDiff: the FileDiffs of raw and the value the module-level counter is
\* left with.  counter is its value when the call starts.
parseDiff(raw, counter) ==
  IF raw = "" \/ Trim(raw) = "" THEN [files |-> <<>>, counter |-> counter]
  ELSE With(MapParse(SplitChunks(raw), resetHunkIds(counter)), LAMBDA r :
         [files |-> SelectSeq(r.files, KeepFile), counter |-> r.counter])

(***************************************************************************)
(* The selector resolver (lib/selector.js).                                *)
(***************************************************************************)

\* String.prototype.includes for a needle of one character.
Includes(s, c) == \E i \in 1..Len(s) : CharAt(s, i) = c

\* String.prototype.split(sep) for a separator of one character: the pieces
\* between consecutive separators (a piece may be empty).
SplitOn(s, sep) ==
  With(SortedSeq({i \in 1..Len(s) : CharAt(s, i) = sep}), LAMBDA at :
    [k \in 1..(Len(at) + 1) |->
       Sub(s, IF k = 1 THEN 1 ELSE at[k - 1] + 1,
              IF k = Len(at) + 1 THEN Len(s) ELSE at[k] - 1)])

\* String.prototype.split(sep, limit): the first `limit` pieces of the split;
\* the pieces after them are left out.
SplitLimit(s, sep, limit) ==
  With(SplitOn(s, sep), LAMBDA pieces :
    SubSeq(pieces, 1, IF Len(pieces) < limit THEN Len(pieces) ELSE limit))

\* /^\d+$/.test(s)
AllDigits(s) == s # "" /\ DigitsEnd(s, 1) = Len(s) + 1

\* The end (exclusive) of the run of white space of s that starts at i: \s*.
RECURSIVE SpacesEnd(_, _)
SpacesEnd(s, i) ==
  IF i <= Len(s) /\ IsSpace(CharAt(s, i)) THEN SpacesEnd(s, i + 1) ELSE i

\* part.match(/^(\d+)\s*-\s*(\d+)$/): the two groups, or Null.
MatchRange(part) ==
  With(DigitsEnd(part, 1), LAMBDA e1 :
  With(SpacesEnd(part, e1), LAMBDA dash :
  With(SpacesEnd(part, dash + 1), LAMBDA b2 :
  With(DigitsEnd(part, b2), LAMBDA e2 :
    IF e1 > 1 /\ CharAt(part, dash) = "-" /\ e2 > b2 /\ e2 = Len(part) + 1
    THEN Some(<<Sub(part, 1, e1 - 1), Sub(part, b2, e2 - 1)>>)
    ELSE Null))))

\* A range loop that stops before `end`.
RangeBeforeEnd(start, end) == [i \in 1..(end - start) |-> start + i - 1]

\* for (let i = start; i <= end; i++) result.push(i): what the loop pushes.
Range(start, end) == [i \in 1..(end - start + 1) |-> start + i - 1]

\* What expandNumberSpec gives: the numbers, or the message of its Error.
Expanded(result) == [ok |-> TRUE, result |-> result, error |-> ""]

ExpandThrown(message) == [ok |-> FALSE, result |-> <<>>, error |-> message]

\* expandNumberSpec, the loop over the parts, with the numbers pushed so far.
RECURSIVE ExpandParts(_, _)
ExpandParts(parts, result) ==
  IF parts = <<>> THEN Expanded(result)
  ELSE
    With(Trim(Head(parts)), LAMBDA part :
      IF Len(part) = 0 THEN ExpandThrown("Invalid number: ")
      ELSE IF Includes(part, "-")
      THEN With(MatchRange(part), LAMBDA match :
             IF match = Null THEN ExpandThrown("Invalid range: " \o part)
             ELSE With(ParseInt(match[1][1]), LAMBDA start :
                  With(ParseInt(match[1][2]), LAMBDA end :
                    IF start > end THEN ExpandThrown("Invalid range: " \o part)
                    ELSE ExpandParts(Tail(parts), result \o Range(start, end)))))
      ELSE IF ~AllDigits(part) THEN ExpandThrown("Invalid number: " \o part)
      ELSE ExpandParts(Tail(parts), Append(result, ParseInt(part))))

\* expandNumberSpec(spec)
expandNumberSpec(spec) == ExpandParts(SplitOn(spec, ","), <<>>)

\* What parseSelector gives: a selection, or the message of its Error.
NoSelection ==
  [ok |-> FALSE, type |-> "none", ids |-> <<>>, hunkId |-> 0, lines |-> <<>>,
   error |-> ""]

SelectorThrown(message) == [NoSelection EXCEPT !.error = message]

\* parseSelector(str); str is Null when the command line has no selector.
parseSelector(str) ==
  IF ~Truthy(str) THEN SelectorThrown("No selector provided")
  ELSE IF Includes(str[1], ":")
  THEN With(SplitLimit(str[1], ":", 2), LAMBDA pieces :
       With(pieces[1], LAMBDA hunkPart :
       With(pieces[2], LAMBDA linePart :
         IF ~AllDigits(Trim(hunkPart))
         THEN SelectorThrown("Invalid hunk ID: " \o hunkPart)
         ELSE With(expandNumberSpec(linePart), LAMBDA lines :
                IF ~lines.ok THEN SelectorThrown(lines.error)
                ELSE [NoSelection EXCEPT !.ok = TRUE, !.type = "lines",
                                         !.hunkId = ParseInt(Trim(hunkPart)),
                                         !.lines = lines.result]))))
  ELSE With(expandNumberSpec(str[1]), LAMBDA ids :
         IF ~ids.ok THEN SelectorThrown(ids.error)
         ELSE [NoSelection EXCEPT !.ok = TRUE, !.type = "hunks", !.ids = ids.result])

(***************************************************************************)
(* The patch builder.                                                      *)
(***************************************************************************)

\* new Set(array)
ToSet(seq) == {seq[i] : i \in 1..Len(seq)}

\* array.map((l) => l.content)
Contents(lines) == [i \in 1..Len(lines) |-> lines[i].content]

\* `${file.file}` : the template text of an optional string.
Text(opt) == IF opt = Null THEN "null" ELSE opt[1]

\* A buildFileHeader that leaves the metadata lines out.
buildFileHeaderNoMetadata(file) ==
  Join(<<"diff --git a/" \o Text(file.file) \o " b/" \o Text(file.file),
         "--- a/" \o Text(file.file), "+++ b/" \o Text(file.file)>>, "\n")

\* A buildFileHeader that takes the "---" and "+++" paths from the
\* "diff --git" pair, whatever old and new path the file stores.
buildFileHeaderDiffPaths(file) ==
  With(IF Truthy(file.diffOldFile) THEN file.diffOldFile[1]
       ELSE "a/" \o Text(file.file), LAMBDA diffOldFile :
  With(IF Truthy(file.diffNewFile) THEN file.diffNewFile[1]
       ELSE "b/" \o Text(file.file), LAMBDA diffNewFile :
    Join(<<"diff --git " \o diffOldFile \o " " \o diffNewFile>>
         \o (IF Len(file.metadataLines) > 0 THEN file.metadataLines ELSE <<>>)
         \o <<"--- " \o diffOldFile, "+++ " \o diffNewFile>>,
         "\n")))

\* buildFileHeader: the "diff --git" line, the metadata lines, "---", "+++".
buildFileHeader(file) ==
  With(IF Truthy(file.diffOldFile) THEN file.diffOldFile[1]
       ELSE "a/" \o Text(file.file), LAMBDA diffOldFile :
  With(IF Truthy(file.diffNewFile) THEN file.diffNewFile[1]
       ELSE "b/" \o Text(file.file), LAMBDA diffNewFile :
  With(IF Truthy(file.oldFile) THEN file.oldFile[1] ELSE diffOldFile, LAMBDA oldFile :
  With(IF Truthy(file.newFile) THEN file.newFile[1] ELSE diffNewFile, LAMBDA newFile :
    Join(<<"diff --git " \o diffOldFile \o " " \o diffNewFile>>
         \o (IF Len(file.metadataLines) > 0 THEN file.metadataLines ELSE <<>>)
         \o <<"--- " \o oldFile, "+++ " \o newFile>>,
         "\n")))))

\* formatHunk: the stored header line, then the stored lines.
formatHunk(hunk) == hunk.header \o "\n" \o Join(Contents(hunk.lines), "\n")

\* A loop over the files that emits every hunk of a file that has a hunk
\* whose id is in idSet.
RECURSIVE FilePatchesWholeFile(_, _)
FilePatchesWholeFile(fileDiffs, idSet) ==
  IF fileDiffs = <<>> THEN <<>>
  ELSE
    With(Head(fileDiffs), LAMBDA file :
      (IF \A k \in 1..Len(file.hunks) : file.hunks[k].id \notin idSet THEN <<>>
       ELSE <<buildFileHeader(file) \o "\n"
              \o Join([i \in 1..Len(file.hunks) |-> formatHunk(file.hunks[i])],
                      "\n")>>)
      \o FilePatchesWholeFile(Tail(fileDiffs), idSet))

\* buildPatchFromHunks, the loop over the files: one block per file that has
\* a hunk whose id is in idSet.
RECURSIVE FilePatches(_, _)
FilePatches(fileDiffs, idSet) ==
  IF fileDiffs = <<>> THEN <<>>
  ELSE
    With(Head(fileDiffs), LAMBDA file :
    With(SelectSeq(file.hunks, LAMBDA h : h.id \in idSet), LAMBDA selectedHunks :
      (IF Len(selectedHunks) = 0 THEN <<>>
       ELSE <<buildFileHeader(file) \o "\n"
              \o Join([i \in 1..Len(selectedHunks) |-> formatHunk(selectedHunks[i])],
                      "\n")>>)
      \o FilePatches(Tail(fileDiffs), idSet)))

\* What a builder call gives: the patch text, or the message of the Error
\* it throws.
Returned(text) == [ok |-> TRUE, text |-> text, error |-> ""]

\* A builder that notes the error and returns the empty patch.
ThrownAsEmptyPatch(message) == [ok |-> TRUE, text |-> "\n", error |-> message]

Thrown(message) == [ok |-> FALSE, text |-> "", error |-> message]

\* A buildPatchFromHunks that throws for an id no hunk has.
buildPatchFromHunksStrict(fileDiffs, hunkIds) ==
  With({i \in 1..Len(hunkIds) :
          \A f \in 1..Len(fileDiffs) : \A k \in 1..Len(fileDiffs[f].hunks) : fileDiffs[f].hunks[k].id # hunkIds[i]},
       LAMBDA missing :
    IF missing # {}
    THEN Thrown("Hunk " \o ToString(hunkIds[CHOOSE m \in missing : \A n \in missing : m <= n])
                \o " not found")
    ELSE Returned(Join(FilePatches(fileDiffs, ToSet(hunkIds)), "\n") \o "\n"))

\* buildPatchFromHunks(fileDiffs, hunkIds)
buildPatchFromHunks(fileDiffs, hunkIds) ==
  Returned(Join(FilePatches(fileDiffs, ToSet(hunkIds)), "\n") \o "\n")

\* buildPatchFromLines, the inner search loop: the first hunk of the file
\* with the id (Null when the file has none).
RECURSIVE FindInHunks(_, _)
FindInHunks(hunks, hunkId) ==
  IF hunks = <<>> THEN Null
  ELSE IF Head(hunks).id = hunkId THEN Some(Head(hunks))
  ELSE FindInHunks(Tail(hunks), hunkId)

\* A search that looks at the first file only.
FindHunkFirstFile(fileDiffs, hunkId) ==
  IF fileDiffs = <<>> THEN Null
  ELSE With(FindInHunks(Head(fileDiffs).hunks, hunkId), LAMBDA h :
         IF h # Null THEN Some([hunk |-> h[1], parentFile |-> Head(fileDiffs)])
         ELSE Null)

\* buildPatchFromLines, the outer search loop: the first file that has such
\* a hunk, with that hunk (Null when no file has one).
RECURSIVE FindHunk(_, _)
FindHunk(fileDiffs, hunkId) ==
  IF fileDiffs = <<>> THEN Null
  ELSE With(FindInHunks(Head(fileDiffs).hunks, hunkId), LAMBDA h :
         IF h # Null THEN Some([hunk |-> h[1], parentFile |-> Head(fileDiffs)])
         ELSE FindHunk(Tail(fileDiffs), hunkId))

\* A demotion that retypes the line and keeps its "-" sigil.
DemotedKeepSigil(line) == [line EXCEPT !.type = "context"]

\* The replacement of an unselected removed line: a context line whose
\* content is " " followed by content.slice(1).
Demoted(line) ==
  [line EXCEPT !.type = "context", !.content = " " \o Slice(line.content, 1)]

\* A rewriting loop that takes an index beyond the last change line for the
\* last change line.
RECURSIVE RewriteLinesClamped(_, _, _)
RewriteLinesClamped(lines, changeIndex, selectedSet) ==
  IF lines = <<>> THEN <<>>
  ELSE
    LET line == Head(lines) IN
    IF line.type = "context" \/ line.type = "no-newline"
    THEN <<line>> \o RewriteLinesClamped(Tail(lines), changeIndex, selectedSet)
    ELSE
      LET isLast == \A k \in 2..Len(lines) : lines[k].type \in {"context", "no-newline"}
          isSelected == \/ (changeIndex + 1) \in selectedSet
                        \/ isLast /\ \E n \in selectedSet : n > changeIndex + 1
      IN
      (IF isSelected THEN <<line>>
       ELSE IF line.type = "removed" THEN <<Demoted(line)>>
       ELSE <<>>)
      \o RewriteLinesClamped(Tail(lines), changeIndex + 1, selectedSet)

\* buildPatchFromLines, the rewriting loop over hunk.lines: changeIndex is
\* the number of change lines met so far.
RECURSIVE RewriteLines(_, _, _)
RewriteLines(lines, changeIndex, selectedSet) ==
  IF lines = <<>> THEN <<>>
  ELSE
    LET line == Head(lines) IN
    IF line.type = "context" \/ line.type = "no-newline"
    THEN <<line>> \o RewriteLines(Tail(lines), changeIndex, selectedSet)
    ELSE
      LET isSelected == (changeIndex + 1) \in selectedSet IN
      (IF isSelected THEN <<line>>
       ELSE IF line.type = "removed" THEN <<Demoted(line)>>
       ELSE <<>>)
      \o RewriteLines(Tail(lines), changeIndex + 1, selectedSet)

\* A counting loop that also counts the no-newline markers.
CountTypeWithMarkers(newLines, types) ==
  Cardinality({i \in 1..Len(newLines) :
                 newLines[i].type \in types \cup {"no-newline"}})

\* buildPatchFromLines, the counting loop: the lines of newLines of a type.
CountType(newLines, types) ==
  Cardinality({i \in 1..Len(newLines) : newLines[i].type \in types})

\* A header that repeats the counts of the original hunk.
NewHeaderOriginalCounts(hunk, newLines) ==
  "@@ -" \o ToString(hunk.oldStart) \o "," \o ToString(hunk.oldCount)
  \o " +" \o ToString(hunk.newStart) \o "," \o ToString(hunk.newCount)
  \o " @@"
  \o (IF Truthy(hunk.context) THEN " " \o hunk.context[1] ELSE "")

\* The recomputed hunk header of buildPatchFromLines.
NewHeader(hunk, newLines) ==
  "@@ -" \o ToString(hunk.oldStart) \o ","
         \o ToString(CountType(newLines, {"context", "removed"}))
  \o " +" \o ToString(hunk.newStart) \o ","
          \o ToString(CountType(newLines, {"context", "added"}))
  \o " @@"
  \o (IF Truthy(hunk.context) THEN " " \o hunk.context[1] ELSE "")

\* buildPatchFromLines(fileDiffs, hunkId, changeLineIndices)
buildPatchFromLines(fileDiffs, hunkId, changeLineIndices) ==
  With(FindHunk(fileDiffs, hunkId), LAMBDA found :
  IF found = Null THEN Thrown("Hunk " \o ToString(hunkId) \o " not found")
  ELSE
    With(found[1].hunk, LAMBDA hunk :
    With(RewriteLines(hunk.lines, 0, ToSet(changeLineIndices)), LAMBDA newLines :
      Returned(buildFileHeader(found[1].parentFile) \o "\n"
               \o NewHeader(hunk, newLines) \o "\n"
               \o Join(Contents(newLines), "\n") \o "\n"))))

(***************************************************************************)
(* The diff source: what `git diff` can hand to getDiff.  A change is      *)
(* described by its files and hunks; the diff text and the two snapshots   *)
(* it compares (old and new content of every file) are rendered from the   *)
(* same description, so the text is always a diff of those snapshots.      *)
(***************************************************************************)

\* The most lines in the body of a generated hunk.
MaxBody == 3

\* The most file fragments in a generated diff.
MaxFiles == 2

\* The most parseDiff calls in one run of the process.
MaxCalls == 2

Marker == "\\ No newline at end of file"

Sigils == {" ", "-", "+"}

\* The text of the i-th line of a hunk body: every line of a hunk differs.
LineText(i) == CharAt("abcdefgh", i)

SideOld(sig) == {i \in 1..Len(sig) : sig[i] \in {" ", "-"}}

SideNew(sig) == {i \in 1..Len(sig) : sig[i] \in {" ", "+"}}

Last(S) == CHOOSE m \in S : \A n \in S : n <= m

\* Whether the old (new) file ends without a newline, by the hunk's tail.
OldNoEol(hd) == hd.tail \in {"old", "both"}

NewNoEol(hd) == hd.tail \in {"new", "both"}

\* A hunk git can emit: it changes something, the removed lines of a change
\* come before its added lines, and a missing final newline belongs to the
\* last line of its side (a context line is the last line of both sides or
\* of neither).
ValidHunk(hd) ==
  LET sig == hd.sigils
      o == SideOld(sig)
      n == SideNew(sig)
  IN  /\ \E i \in 1..Len(sig) : sig[i] # " "
      /\ \A i \in 1..(Len(sig) - 1) : ~(sig[i] = "+" /\ sig[i + 1] = "-")
      /\ OldNoEol(hd) =>
           o # {} /\ (sig[Last(o)] = " " => NewNoEol(hd) /\ Last(n) = Last(o))
      /\ NewNoEol(hd) =>
           n # {} /\ (sig[Last(n)] = " " => OldNoEol(hd) /\ Last(o) = Last(n))

\* The body lines of the hunk as git prints them.
RECURSIVE BodyFrom(_, _)
BodyFrom(hd, i) ==
  IF i > Len(hd.sigils) THEN <<>>
  ELSE
    LET o == SideOld(hd.sigils)
        n == SideNew(hd.sigils)
        marked == \/ OldNoEol(hd) /\ o # {} /\ i = Last(o)
                  \/ NewNoEol(hd) /\ n # {} /\ i = Last(n)
    IN  <<hd.sigils[i] \o LineText(i)>>
        \o (IF marked THEN <<Marker>> ELSE <<>>)
        \o BodyFrom(hd, i + 1)

\* The content one side of the hunk stands for: its lines, each ended by a
\* newline except a last line the side leaves unterminated.
RECURSIVE SideContent(_, _, _, _)
SideContent(hd, side, noEol, i) ==
  IF i > Len(hd.sigils) THEN ""
  ELSE (IF i \in side
        THEN LineText(i) \o (IF noEol /\ i = Last(side) THEN "" ELSE "\n")
        ELSE "")
       \o SideContent(hd, side, noEol, i + 1)

\* "start,count" as git prints a range: the count is left out when it is 1,
\* and an empty range starts at the line before it.
RangeText(before, count) ==
  IF count = 0 THEN ToString(before) \o ",0"
  ELSE IF count = 1 THEN ToString(before + 1)
  ELSE ToString(before + 1) \o "," \o ToString(count)

\* n unchanged lines the diff does not show.
RECURSIVE Filler(_)
Filler(n) == IF n = 0 THEN "" ELSE "fn()\n" \o Filler(n - 1)

\* The hunks of one file from hunk j on: the diff lines and both contents.
\* oldN / newN are the lines of the old / new file before the hunk's gap.
RECURSIVE RenderHunks(_, _, _, _)
RenderHunks(hunks, j, oldN, newN) ==
  IF j > Len(hunks) THEN [lines |-> <<>>, old |-> "", new |-> ""]
  ELSE
    With(hunks[j], LAMBDA hd :
    With(SideOld(hd.sigils), LAMBDA o :
    With(SideNew(hd.sigils), LAMBDA n :
    With(RenderHunks(hunks, j + 1, oldN + hd.gap + Cardinality(o),
                     newN + hd.gap + Cardinality(n)), LAMBDA rest :
      [lines |-> <<"@@ -" \o RangeText(oldN + hd.gap, Cardinality(o))
                   \o " +" \o RangeText(newN + hd.gap, Cardinality(n))
                   \o " @@" \o hd.ctx>>
                 \o BodyFrom(hd, 1) \o rest.lines,
       old |-> Filler(hd.gap) \o SideContent(hd, o, OldNoEol(hd), 1)
               \o rest.old,
       new |-> Filler(hd.gap) \o SideContent(hd, n, NewNoEol(hd), 1)
               \o rest.new]))))

\* The header lines git prints for a file, by the kind of change.
HeaderLines(kind, path) ==
  CASE kind = "plain" ->
         <<"diff --git a/" \o path \o " b/" \o path, "index 1..2 100644",
           "--- a/" \o path, "+++ b/" \o path>>
    [] kind = "junk" ->
         <<"diff --git a/" \o path \o " b/" \o path, "index 1..2 100644",
           "--- a/" \o path, "+++ b/" \o path,
           "garbage", "@@ junk @@", "stray">>
    [] kind = "quoted" ->
         <<"diff --git \"a/" \o path \o "\\303\\251\" \"b/" \o path \o "\\303\\251\"",
           "index 1..2 100644",
           "--- \"a/" \o path \o "\\303\\251\"",
           "+++ \"b/" \o path \o "\\303\\251\"">>
    [] kind = "new" ->
         <<"diff --git a/" \o path \o " b/" \o path, "new file mode 100644",
           "index 0..2", "--- /dev/null", "+++ b/" \o path>>
    [] kind = "rename" ->
         <<"diff --git a/" \o path \o " b/" \o path \o "2", "similarity index 100%",
           "rename from " \o path, "rename to " \o path \o "2">>

\* One file of a change: the fragment of the diff text and both contents.
RenderFile(fd) ==
  With(RenderHunks(fd.hunks, 1, 0, 0), LAMBDA r :
    [text |-> Join(HeaderLines(fd.kind, fd.path) \o r.lines, "\n") \o "\n",
     path |-> fd.path, old |-> r.old, new |-> r.new])

\* The tails of a hunk: both files go on or end with a newline ("eol"), or
\* the old, the new or both end without one.
Tails == {"eol", "old", "new", "both"}

\* The hunks with a body of up to MaxBody lines.  With git's three lines of
\* context such a hunk shows its whole file: it starts at line 1, ends at
\* the end of the file, and has no function text after its range.
RichHunks ==
  {hd \in [sigils : UNION {[1..k -> Sigils] : k \in 1..MaxBody},
           tail : Tails, gap : {0}, ctx : {""}] : ValidHunk(hd)}

\* A hunk that shows a whole file of two lines.
HunkW == [sigils |-> <<"-", "+">>, tail |-> "eol", gap |-> 0, ctx |-> ""]

\* The two hunks of a longer file: a change to its first line with the
\* three lines after it, and, one line further down, a change to its last
\* line with the three lines before it.
HunkA ==
  [sigils |-> <<"-", "+", " ", " ", " ">>, tail |-> "eol", gap |-> 0, ctx |-> ""]

HunkB ==
  [sigils |-> <<" ", " ", " ", "-", "+">>, tail |-> "eol", gap |-> 1,
   ctx |-> " fn()"]

\* The hunk of a new file of one line.
HunkN == [sigils |-> <<"+">>, tail |-> "eol", gap |-> 0, ctx |-> ""]

\* The shapes of one file of a diff of several files: its kind and hunks.
FileShapes ==
  {[kind |-> "plain", hunks |-> <<HunkW>>],
   [kind |-> "plain", hunks |-> <<HunkA, HunkB>>],
   [kind |-> "junk", hunks |-> <<HunkW>>],
   [kind |-> "quoted", hunks |-> <<HunkW>>],
   [kind |-> "new", hunks |-> <<HunkN>>],
   [kind |-> "rename", hunks |-> <<>>]}

PathAt(i) == CharAt("fgh", i)

\* The files of a change, rendered: position i holds the file of path PathAt(i).
Rendered(shapes) ==
  [i \in 1..Len(shapes) |->
     RenderFile([kind |-> shapes[i].kind, path |-> PathAt(i),
                 hunks |-> shapes[i].hunks])]

\* What getDiff returns for a change, with the snapshots it compared.
\* nl: whether the text keeps its final newline.
Scenario(files, nl) ==
  With(Join([i \in 1..Len(files) |-> files[i].text], ""), LAMBDA text :
    [raw |-> IF nl THEN text ELSE Sub(text, 1, Len(text) - 1),
     tree |-> [i \in 1..Len(files) |->
                 [path |-> files[i].path, old |-> files[i].old,
                  new |-> files[i].new]]])

\* One file with one hunk of every shape.
LineScenarios ==
  {Scenario(Rendered(<<[kind |-> "plain", hunks |-> <<hd>>]>>), TRUE) :
     hd \in RichHunks}

\* Up to MaxFiles files of every shape, and the same text cut before its
\* final newline for a single file.
FileScenarios ==
  {Scenario(Rendered(shapes), TRUE) :
     shapes \in UNION {[1..k -> FileShapes] : k \in 1..MaxFiles}}
  \cup {Scenario(Rendered(<<sh>>), FALSE) : sh \in FileShapes}

\* No change at all: the empty text, and a lone newline.
EmptyScenarios == {[raw |-> "", tree |-> <<>>], [raw |-> "\n", tree |-> <<>>]}

Scenarios == LineScenarios \cup FileScenarios \cup EmptyScenarios

(***************************************************************************)
(* The patch sink: what `git apply [--cached] [--reverse] -` does with the *)
(* text applyPatch pipes to it, for a patch of one file.                   *)
(***************************************************************************)

\* The lines of a blob, each with its newline; a last line may have none.
ImageLines(content) ==
  With(SplitLines(content), LAMBDA p :
    [k \in 1..(IF p[Len(p)] = "" THEN Len(p) - 1 ELSE Len(p)) |->
       IF k < Len(p) THEN p[k] \o "\n" ELSE p[k]])

\* The bytes of a sequence of lines.
Bytes(lines) == Join(lines, "")

\* A line without its white space: what git compares first.
RECURSIVE Unspaced(_)
Unspaced(s) ==
  IF s = "" THEN ""
  ELSE (IF IsSpace(Head(s)) THEN "" ELSE Sub(s, 1, 1)) \o Unspaced(Tail(s))

\* A hunk of which oldLeft old and newLeft new lines are still to be read.
NoFragment(oldLeft, newLeft) ==
  [ok |-> TRUE, oldLeft |-> oldLeft, newLeft |-> newLeft,
   pre |-> <<>>, post |-> <<>>, changed |-> FALSE, leading |-> 0, trailing |-> 0]

\* git reads the lines of a hunk from line i on until both ranges are full:
\* the lines of the old side (pre) and of the new side (post), a line followed
\* by a "\" line being without newline, and the context lines that lead and
\* trail.  Not ok (a corrupt patch): the text ends first, a line fits neither
\* range or has an unknown sigil, or the hunk changes nothing.
RECURSIVE GitFragment(_, _, _)
GitFragment(lines, i, f) ==
  IF f.oldLeft = 0 /\ f.newLeft = 0 THEN [f EXCEPT !.ok = f.changed]
  ELSE IF i > Len(lines) THEN [f EXCEPT !.ok = FALSE]
  ELSE
    LET l == lines[i]
        c == CharAt(l, 1)
        marked == i < Len(lines) /\ StartsWith(lines[i + 1], "\\")
        bytes == Slice(l, 1) \o (IF marked THEN "" ELSE "\n")
        inOld == c \in {" ", "", "-"}
        inNew == c \in {" ", "", "+"}
    IN  IF c = "\\"
        THEN IF Len(l) >= 11 /\ StartsWith(l, "\\ ")
             THEN GitFragment(lines, i + 1, f)
             ELSE [f EXCEPT !.ok = FALSE]
        ELSE IF ~(inOld \/ inNew) \/ (inOld /\ f.oldLeft = 0) \/ (inNew /\ f.newLeft = 0)
        THEN [f EXCEPT !.ok = FALSE]
        ELSE GitFragment(lines, i + 1,
               [f EXCEPT !.oldLeft = IF inOld THEN @ - 1 ELSE @,
                         !.newLeft = IF inNew THEN @ - 1 ELSE @,
                         !.pre = IF inOld THEN Append(@, bytes) ELSE @,
                         !.post = IF inNew THEN Append(@, bytes) ELSE @,
                         !.changed = @ \/ ~(inOld /\ inNew),
                         !.leading = IF inOld /\ inNew /\ ~f.changed THEN @ + 1 ELSE @,
                         !.trailing = IF inOld /\ inNew THEN @ + 1 ELSE 0])

\* Whether the lines pre stand in the image after its first p lines: line by
\* line without white space, and byte by byte.  A hunk that must match the
\* beginning stands at p = 0; one that must match the end ends the image.
MatchFragment(img, pre, p, matchBeginning, matchEnd) ==
  /\ Len(pre) + p <= Len(img)
  /\ matchEnd => Len(pre) + p = Len(img)
  /\ matchBeginning => p = 0
  /\ \A k \in 1..Len(pre) : Unspaced(pre[k]) = Unspaced(img[p + k])
  /\ IF matchEnd
     THEN Bytes(SubSeq(img, p + 1, Len(img))) = Bytes(pre)
     ELSE StartsWith(Bytes(SubSeq(img, p + 1, Len(img))), Bytes(pre))

\* The distance of two line numbers.
Dist(a, b) == IF a < b THEN b - a ELSE a - b

\* Where git finds the lines pre in the image: it starts at `line` (at the
\* beginning or the end when the hunk must match there) and looks one line
\* further down, one further up, and so on.  -1 when they stand nowhere.
FindPos(img, pre, line, matchBeginning, matchEnd) ==
  With(IF matchBeginning THEN 0
       ELSE IF matchEnd THEN Len(img) - Len(pre) ELSE line, LAMBDA asked :
  With(IF asked < 0 \/ asked > Len(img) THEN Len(img) ELSE asked, LAMBDA from :
  With({p \in 0..Len(img) : MatchFragment(img, pre, p, matchBeginning, matchEnd)},
       LAMBDA hits :
    IF hits = {} THEN -1
    ELSE CHOOSE p \in hits :
           \A q \in hits : \/ Dist(p, from) < Dist(q, from)
                           \/ Dist(p, from) = Dist(q, from) /\ p >= q)))

FirstIndex(lines, prefix) ==
  LET hits == {i \in 1..Len(lines) : StartsWith(lines[i], prefix)}
  IN  IF hits = {} THEN 0 ELSE CHOOSE m \in hits : \A n \in hits : m <= n

\* The file a one-file patch names: the path of its "+++ b/" line, or of
\* its "--- a/" line when the new side is /dev/null.
GitPatchPath(lines) ==
  With(FirstIndex(lines, "+++ b/"), LAMBDA n :
  With(FirstIndex(lines, "--- a/"), LAMBDA o :
    IF n > 0 THEN Some(Slice(lines[n], 6))
    ELSE IF o > 0 THEN Some(Slice(lines[o], 6))
    ELSE Null))

\* What git apply gives when it refuses a patch: the content as it was.
Refused(content) == [ok |-> FALSE, content |-> content]

\* The hunk read as frag put to the image: its old side, found as FindPos
\* finds it, gives way to its new side.  A hunk whose old range starts at
\* line 0 or 1 must match the beginning, one without trailing context the end.
\* emptied: the patch removes the file, so nothing may be left of it.
PutFragment(content, pre, post, oldpos, newpos, trailing, emptied) ==
  With(ImageLines(content), LAMBDA img :
  With(FindPos(img, pre, IF newpos = 0 THEN 0 ELSE newpos - 1,
               oldpos <= 1, trailing = 0), LAMBDA pos :
    IF pos < 0 THEN Refused(content)
    ELSE With(Bytes(SubSeq(img, 1, pos) \o post
                    \o SubSeq(img, pos + Len(pre) + 1, Len(img))), LAMBDA result :
           IF emptied /\ result # "" THEN Refused(content)
           ELSE [ok |-> TRUE, content |-> result])))

\* The hunks of a one-file patch from line `from` on, put to the content one
\* after the other, each to what the one before it left.  In reverse the
\* two sides of a hunk change places.
RECURSIVE GitApplyFrom(_, _, _, _, _)
GitApplyFrom(content, lines, from, reverse, emptied) ==
  With({i \in from..Len(lines) : StartsWith(lines[i], "@@ -")}, LAMBDA hs :
    IF hs = {} THEN [ok |-> TRUE, content |-> content]
    ELSE
      With(CHOOSE m \in hs : \A n \in hs : m <= n, LAMBDA h :
      With(parseHunkHeader(lines[h]), LAMBDA header :
        IF header = Null THEN Refused(content)
        ELSE
          With(GitFragment(lines, h + 1,
                           NoFragment(header[1].oldCount, header[1].newCount)),
               LAMBDA frag :
            IF ~frag.ok THEN Refused(content)
            ELSE
              With(IF reverse
                   THEN PutFragment(content, frag.post, frag.pre,
                                    header[1].newStart, header[1].oldStart,
                                    frag.trailing, emptied)
                   ELSE PutFragment(content, frag.pre, frag.post,
                                    header[1].oldStart, header[1].newStart,
                                    frag.trailing, FALSE), LAMBDA r :
                IF ~r.ok THEN r
                ELSE GitApplyFrom(r.content, lines, h + 1, reverse, emptied))))))

\* git apply [--reverse] of the patch text of one file to the content of
\* that file ("" when the file is not there): the new content, or a refusal
\* that leaves the content as it was (a text without a hunk is no patch).
\* In reverse the patch of a new file removes it.
GitApply(content, text, reverse) ==
  With(TextLines(text), LAMBDA lines :
  With(FirstIndex(lines, "@@ -"), LAMBDA h :
    IF h = 0 THEN Refused(content)
    ELSE
      With(GitApplyFrom(content, lines, 1, reverse,
                        reverse /\ \E i \in 1..h : StartsWith(lines[i], "new file mode")),
           LAMBDA r :
        IF r.ok THEN r ELSE Refused(content))))

(***************************************************************************)
(* The process: it asks the diff source for a diff, parses it, builds a    *)
(* patch for a selection and pipes the patch to the patch sink.            *)
(***************************************************************************)

VARIABLES
  pc,             \* "diff" | "parsed" | "built" | "applied"
  raw,            \* the text the diff source returned
  tree,           \* the snapshots it compared: <<[path, old, new]>>
  hunkIdCounter,  \* the module-level counter of the parser
  entry,          \* its value when the last parseDiff call started
  fileDiffs,      \* the result of the last parseDiff call
  calls,          \* the parseDiff calls made so far
  req,            \* the selection the last build was asked for
  patch,          \* what that build returned or threw
  outcome,        \* what the patch sink made of the patch
  argv,           \* the options of the command that runs
  sel,            \* what parseSelector made of the selector
  out,            \* the lines printed so far
  sink            \* the applyPatch calls so far: <<[patch, cached, reverse]>>

\* The part of the state the commands and the resolver add.
cli == <<argv, sel, out, sink>>

vars == <<pc, raw, tree, hunkIdCounter, entry, fileDiffs, calls, req, patch,
          outcome, argv, sel, out, sink>>

\* The options of a command: no selector, no flag.
NoArgs ==
  [command |-> "none", selector |-> Null, all |-> FALSE, matching |-> Null,
   yes |-> FALSE, dryRun |-> FALSE, staged |-> FALSE, summary |-> FALSE]

NoReq == [kind |-> "none", ids |-> <<>>, hunkId |-> 0, lines |-> <<>>]

NoPatch == [ok |-> FALSE, text |-> "", error |-> ""]

NoOutcome == [mode |-> "none", ok |-> FALSE, content |-> ""]

\* The hunks of all files, in file order then hunk order.
RECURSIVE AllHunks(_)
AllHunks(files) ==
  IF files = <<>> THEN <<>> ELSE Head(files).hunks \o AllHunks(Tail(files))

\* fileDiffs.flatMap((f) => f.hunks.map((h) => h.id))
AllIds(files) == [i \in 1..Len(AllHunks(files)) |-> AllHunks(files)[i].id]

Init ==
  /\ pc = "diff"
  /\ \E sc \in Scenarios : raw = sc.raw /\ tree = sc.tree
  /\ hunkIdCounter = 0
  /\ entry = 0
  /\ fileDiffs = <<>>
  /\ calls = 0
  /\ req = NoReq
  /\ patch = NoPatch
  /\ outcome = NoOutcome
  /\ argv = NoArgs
  /\ sel = NoSelection
  /\ out = <<>>
  /\ sink = <<>>

\* getDiff: the diff source is asked again (status asks for the staged and
\* then for the unstaged diff).
GetDiff ==
  /\ pc = "parsed"
  /\ calls < MaxCalls
  /\ \E sc \in Scenarios : raw' = sc.raw /\ tree' = sc.tree
  /\ pc' = "diff"
  /\ UNCHANGED <<hunkIdCounter, entry, fileDiffs, calls, req, patch, outcome, cli>>

\* let fileDiffs = parseDiff(raw)
Parse ==
  /\ pc = "diff"
  /\ With(parseDiff(raw, hunkIdCounter), LAMBDA r :
       fileDiffs' = r.files /\ hunkIdCounter' = r.counter)
  /\ entry' = hunkIdCounter
  /\ calls' = calls + 1
  /\ pc' = "parsed"
  /\ UNCHANGED <<raw, tree, req, patch, outcome, cli>>

\* The id lists a caller may pass: every hunk of the diff (--all), and any
\* one or two ids, present or not, in any order.
IdLists(files) ==
  LET n == Len(AllHunks(files)) + 1
  IN  {AllIds(files)} \cup UNION {[1..k -> 1..n] : k \in 1..2}

\* patch = buildPatchFromHunks(fileDiffs, ids)
BuildFromHunks ==
  /\ pc = "parsed"
  /\ fileDiffs # <<>>
  /\ \E ids \in IdLists(fileDiffs) :
       /\ req' = [kind |-> "hunks", ids |-> ids, hunkId |-> 0, lines |-> <<>>]
       /\ patch' = buildPatchFromHunks(fileDiffs, ids)
  /\ pc' = "built"
  /\ UNCHANGED <<raw, tree, hunkIdCounter, entry, fileDiffs, calls, outcome, cli>>

\* patch = buildPatchFromLines(fileDiffs, sel.hunkId, sel.lines)
BuildFromLines ==
  /\ pc = "parsed"
  /\ fileDiffs # <<>>
  /\ \E hunkId \in 1..(Len(AllHunks(fileDiffs)) + 1), S \in SUBSET (0..(MaxBody + 1)) :
       /\ req' = [kind |-> "lines", ids |-> <<>>, hunkId |-> hunkId,
                  lines |-> SortedSeq(S)]
       /\ patch' = buildPatchFromLines(fileDiffs, hunkId, SortedSeq(S))
  /\ pc' = "built"
  /\ UNCHANGED <<raw, tree, hunkIdCounter, entry, fileDiffs, calls, outcome, cli>>

\* The content of the patch's file in the snapshot the sink works on: the
\* old one for stage, the new one for unstage and discard.
Target(text, reverse) ==
  With(GitPatchPath(TextLines(text)), LAMBDA path :
  With({i \in 1..Len(tree) : path # Null /\ tree[i].path = path[1]}, LAMBDA hits :
    IF hits = {} THEN Null
    ELSE With(CHOOSE j \in hits : TRUE, LAMBDA i :
           Some(IF reverse THEN tree[i].new ELSE tree[i].old))))

\* A patch sink that always works on the index.
ApplyOptionsIndex(command) ==
  [cached |-> TRUE, reverse |-> command # "stage"]

\* The options a command hands to applyPatch: stage applies to the index,
\* unstage to the index in reverse, discard to the working tree in reverse.
ApplyOptions(command) ==
  [cached |-> command # "discard", reverse |-> command # "stage"]

\* applyPatch: the command line it runs, args.join(" ").
ApplyCommand(opts) ==
  "git apply" \o (IF opts.cached THEN " --cached" ELSE "")
  \o (IF opts.reverse THEN " --reverse" ELSE "") \o " -"

\* What git apply works on: with --cached the index and only the index,
\* without it the working tree and only the working tree.
Touched(opts) == IF opts.cached THEN "index" ELSE "worktree"

\* The record of one applyPatch call.
SinkCall(text, opts) ==
  [patch |-> text, cached |-> opts.cached, reverse |-> opts.reverse]

\* applyPatch(patch, {cached, reverse}) for a patch of one hunk: forward to
\* the index (stage), or in reverse to the index (unstage) or to the working
\* tree (discard).
ApplyPatch ==
  /\ pc = "built"
  /\ req.kind = "lines"
  /\ patch.ok
  /\ \E command \in {"stage", "unstage", "discard"} :
       With(ApplyOptions(command), LAMBDA opts :
       With(Target(patch.text, opts.reverse), LAMBDA t :
         /\ t # Null
         /\ sink' = Append(sink, SinkCall(patch.text, opts))
         /\ With(GitApply(t[1], patch.text, opts.reverse), LAMBDA r :
              outcome' = [mode |-> IF opts.reverse THEN "reverse" ELSE "forward",
                          ok |-> r.ok, content |-> r.content])))
  /\ pc' = "applied"
  /\ UNCHANGED <<raw, tree, hunkIdCounter, entry, fileDiffs, calls, req, patch,
                 argv, sel, out>>

Next == GetDiff \/ Parse \/ BuildFromHunks \/ BuildFromLines \/ ApplyPatch

Spec == Init /\ [][Next]_vars

(***************************************************************************)
(* The resolver on its own: parseSelector applied to a selector text.      *)
(***************************************************************************)

MaxTokens == 3

\* The texts between the commas and colons of a selector: numbers, ranges
\* that ascend and descend, white space, and what is neither.
Tokens == {"", "1", "2", "1-2", "0-2", "2-1", " 2", "1 -2", "x", "1x"}

\* toks[1] seps[1] toks[2] ... : the tokens with the separators between them.
RECURSIVE Interleave(_, _)
Interleave(toks, seps) ==
  IF Len(toks) = 1 THEN toks[1]
  ELSE toks[1] \o seps[1] \o Interleave(Tail(toks), Tail(seps))

\* The selector texts of up to MaxTokens tokens.
Selectors ==
  UNION {{Interleave(toks, seps) :
            toks \in [1..k -> Tokens], seps \in [1..(k - 1) -> {",", ":"}]} :
         k \in 1..MaxTokens}

SelectorInit ==
  /\ pc = "select"
  /\ raw = ""
  /\ tree = <<>>
  /\ hunkIdCounter = 0
  /\ entry = 0
  /\ fileDiffs = <<>>
  /\ calls = 0
  /\ req = NoReq
  /\ patch = NoPatch
  /\ outcome = NoOutcome
  /\ \E str \in {Null} \cup {Some(t) : t \in Selectors} :
       argv = [NoArgs EXCEPT !.selector = str]
  /\ sel = NoSelection
  /\ out = <<>>
  /\ sink = <<>>

\* let sel = parseSelector(selector)
Resolve ==
  /\ pc = "select"
  /\ sel' = parseSelector(argv.selector)
  /\ pc' = "resolved"
  /\ UNCHANGED <<raw, tree, hunkIdCounter, entry, fileDiffs, calls, req, patch,
                 outcome, argv, out, sink>>

SelectorSpec == SelectorInit /\ [][Resolve]_vars

(***************************************************************************)
(* The builders on their own, called with a model assembled by hand (as    *)
(* the tests do): any of the stored paths may be absent.                   *)
(***************************************************************************)

\* A hunk made by hand: one removed and one added line.
MadeHunk(id) ==
  [id |-> id, header |-> "@@ -1 +1 @@", oldStart |-> 1, oldCount |-> 1,
   newStart |-> 1, newCount |-> 1, context |-> Null,
   lines |-> <<[type |-> "removed", content |-> "-a", oldLine |-> Some(1),
                newLine |-> Null],
               [type |-> "added", content |-> "+b", oldLine |-> Null,
                newLine |-> Some(1)]>>,
   addedCount |-> 1, removedCount |-> 1]

\* The files made by hand for a path, with the hunk of an id: each stored
\* path there or not, and no, one or two metadata lines.
MadeFiles(path, id) ==
  [file : {Some(path)},
   diffOldFile : {Null, Some("a/" \o path \o "0")},
   diffNewFile : {Null, Some("b/" \o path \o "1")},
   oldFile : {Null, Some("/dev/null"), Some("a/" \o path \o "2")},
   newFile : {Null, Some("b/" \o path \o "3")},
   metadataLines : {<<>>, <<"index 1..2 100644">>,
                    <<"new file mode 100644", "index 0..2">>},
   hunks : {<<MadeHunk(id)>>}]

\* The models made by hand: one file of every kind, and two files of which
\* each stores all of its paths or only its new path.
MadeDiffs ==
  {<<f>> : f \in MadeFiles("f", 1)}
  \cup {<<f, g>> : f \in {m \in MadeFiles("f", 1) :
                             (m.diffOldFile = Null) = (m.oldFile = Null)
                             /\ (m.diffNewFile = Null) = (m.oldFile = Null)
                             /\ m.oldFile # Some("/dev/null")
                             /\ Len(m.metadataLines) < 2},
                   g \in {m \in MadeFiles("g", 2) :
                             (m.diffOldFile = Null) = (m.newFile = Null)
                             /\ m.diffNewFile # Null
                             /\ m.oldFile # Some("a/g2")
                             /\ Len(m.metadataLines) # 1}}

BuilderInit ==
  /\ pc = "parsed"
  /\ raw = ""
  /\ tree = <<>>
  /\ hunkIdCounter = 0
  /\ entry = 0
  /\ fileDiffs \in MadeDiffs
  /\ calls = 0
  /\ req = NoReq
  /\ patch = NoPatch
  /\ outcome = NoOutcome
  /\ argv = NoArgs
  /\ sel = NoSelection
  /\ out = <<>>
  /\ sink = <<>>

BuilderNext == BuildFromHunks \/ BuildFromLines

BuilderSpec == BuilderInit /\ [][BuilderNext]_vars

(***************************************************************************)
(* The commands list, unstage and discard, from their options to the       *)
(* output and the patch sink.  unstage and discard work on the diffs of    *)
(* one file, list (without --json) on every diff.                          *)
(***************************************************************************)

\* The selectors a command is given.
CmdSelectors == {"1", "2", "1,2", "1:1", "1:0-2", "2:1", "x", "1:1:x"}

\* The texts given to --matching: a letter, which is a regular expression
\* that matches the lines with that letter, and "(", which is none.
Patterns == {"a", "d", "z", "("}

\* The ways to say what to act on: --all, --matching <regex> and a
\* selector, alone and together.
Hows ==
  {[all |-> TRUE, matching |-> m, selector |-> s] :
     m \in {Null, Some("a"), Some("(")}, s \in {Null, Some("1"), Some("x")}}
  \cup {[all |-> FALSE, matching |-> Some(m), selector |-> s] :
          m \in Patterns, s \in {Null, Some("x")}}
  \cup {[all |-> FALSE, matching |-> Null, selector |-> s] :
          s \in {Null} \cup {Some(t) : t \in CmdSelectors}}

\* The options of unstage, those of discard with --yes and --dry-run, and
\* those of list's run: staged and summary (the command line gives --staged;
\* summary is an option of run).
CmdArgs ==
  {[NoArgs EXCEPT !.command = "unstage", !.selector = h.selector, !.all = h.all,
                  !.matching = h.matching] : h \in Hows}
  \cup {[NoArgs EXCEPT !.command = "discard", !.selector = h.selector,
                       !.all = h.all, !.matching = h.matching,
                       !.yes = y, !.dryRun = d] :
          h \in Hows, y \in BOOLEAN, d \in BOOLEAN}
  \cup {[NoArgs EXCEPT !.command = "list", !.staged = st, !.summary = su] :
          st \in BOOLEAN, su \in BOOLEAN}

\* The diffs of one file: one hunk of every shape, a file of every kind
\* (with and without the final newline of the text), and no change.
CmdScenarios ==
  LineScenarios \cup EmptyScenarios
  \cup {Scenario(Rendered(<<sh>>), nl) : sh \in FileShapes, nl \in BOOLEAN}

\* The diffs a command may meet.
ScenariosOf(command) == IF command = "list" THEN Scenarios ELSE CmdScenarios

CmdInit ==
  /\ pc = "start"
  /\ raw = ""
  /\ argv \in CmdArgs
  /\ tree \in {sc.tree : sc \in ScenariosOf(argv.command)}
  /\ hunkIdCounter = 0
  /\ entry = 0
  /\ fileDiffs = <<>>
  /\ calls = 0
  /\ req = NoReq
  /\ patch = NoPatch
  /\ outcome = NoOutcome
  /\ sel = NoSelection
  /\ out = <<>>
  /\ sink = <<>>

\* A check that asks for --yes even for a preview.
RefusesWithoutYes(a) == a.command = "discard" /\ ~a.yes

\* discard: if (!yes && !dryRun)
Refuses(a) == a.command = "discard" /\ ~a.yes /\ ~a.dryRun

\* The start of run: discard refuses unless confirmed (console.error and
\* process.exit(1)); unstage has no such check.
CmdStart ==
  /\ pc = "start"
  /\ IF Refuses(argv)
     THEN /\ out' = Append(out, "Discard is destructive. Use --yes to confirm or --dry-run to preview.")
          /\ pc' = "exit1"
     ELSE /\ out' = out
          /\ pc' = "confirmed"
  /\ UNCHANGED <<raw, tree, hunkIdCounter, entry, fileDiffs, calls, req, patch,
                 outcome, argv, sel, sink>>

\* let raw = getDiff(...): the diff of the snapshots as they are.
CmdGetDiff ==
  /\ pc = "confirmed"
  /\ \E sc \in ScenariosOf(argv.command) : sc.tree = tree /\ raw' = sc.raw
  /\ pc' = "diff"
  /\ UNCHANGED <<tree, hunkIdCounter, entry, fileDiffs, calls, req, patch,
                 outcome, cli>>

\* new RegExp(matching) throws a SyntaxError for "(".
RegexThrown(pattern) == pattern = "("

RegexError(pattern) ==
  "Invalid regular expression: /" \o pattern \o "/: Unterminated group"

\* A test of every line of the hunk, context lines too.
HasMatchAnyLine(hunk, letter) ==
  \E i \in 1..Len(hunk.lines) : Includes(hunk.lines[i].content, letter)

\* regex.test(l.content) on an added or removed line of the hunk, for a
\* regex of one letter.
HasMatch(hunk, letter) ==
  \E i \in 1..Len(hunk.lines) :
    /\ hunk.lines[i].type \in {"added", "removed"}
    /\ Includes(hunk.lines[i].content, letter)

\* The ids of the hunks with a match, in order.
MatchedIds(files, letter) ==
  With(SelectSeq(AllHunks(files), LAMBDA h : HasMatch(h, letter)), LAMBDA hs :
    [i \in 1..Len(hs) |-> hs[i].id])

\* A request for hunks, and one for lines of a hunk.
HunksReq(ids) == [kind |-> "hunks", ids |-> ids, hunkId |-> 0, lines |-> <<>>]

LinesReq(hunkId, lines) ==
  [kind |-> "lines", ids |-> <<>>, hunkId |-> hunkId, lines |-> lines]

\* run from the empty check to the built patch: where it goes on ("built"),
\* returns ("done") or throws ("failed": the caller prints the message and
\* exits with 1), with the selection, the request, the patch and the output
\* it leaves.
ChosenMatchingFirst(a) ==
  IF Truthy(a.matching) THEN "matching" ELSE IF a.all THEN "all" ELSE "selector"

\* if (all) ... else if (matching) ... else ...: what says which hunks.
Chosen(a) ==
  IF a.all THEN "all" ELSE IF Truthy(a.matching) THEN "matching" ELSE "selector"

Built(a, files, printed) ==
  LET staged == IF a.command = "unstage" THEN "staged " ELSE ""
      base == [pc |-> "built", sel |-> NoSelection, req |-> NoReq,
               patch |-> NoPatch, out |-> printed]
  IN
  IF Len(files) = 0
  THEN [base EXCEPT !.pc = "done",
                    !.out = Append(printed,
                              IF a.command = "unstage" THEN "No staged changes to unstage."
                              ELSE "No unstaged changes to discard.")]
  ELSE IF Chosen(a) = "all"
  THEN [base EXCEPT !.req = HunksReq(AllIds(files)),
                    !.patch = buildPatchFromHunks(files, AllIds(files))]
  ELSE IF Chosen(a) = "matching" /\ RegexThrown(a.matching[1])
  THEN [base EXCEPT !.pc = "failed",
                    !.out = Append(printed, RegexError(a.matching[1]))]
  ELSE IF Chosen(a) = "matching"
  THEN With(MatchedIds(files, a.matching[1]), LAMBDA matchedIds :
         IF Len(matchedIds) = 0
         THEN [base EXCEPT !.pc = "done",
                           !.out = Append(printed, "No " \o staged \o "hunks matching /"
                                                   \o a.matching[1] \o "/.")]
         ELSE [base EXCEPT !.req = HunksReq(matchedIds),
                           !.patch = buildPatchFromHunks(files, matchedIds),
                           !.out = IF a.command = "unstage"
                                   THEN Append(printed, "Unstaging " \o ToString(Len(matchedIds))
                                                        \o " hunk(s) matching /"
                                                        \o a.matching[1] \o "/")
                                   ELSE printed])
  ELSE With(parseSelector(a.selector), LAMBDA s :
         IF ~s.ok
         THEN [base EXCEPT !.pc = "failed", !.sel = s, !.out = Append(printed, s.error)]
         ELSE IF s.type = "lines"
         THEN With(buildPatchFromLines(files, s.hunkId, s.lines), LAMBDA p :
                IF ~p.ok
                THEN [base EXCEPT !.pc = "failed", !.sel = s,
                                  !.req = LinesReq(s.hunkId, s.lines),
                                  !.patch = p, !.out = Append(printed, p.error)]
                ELSE [base EXCEPT !.sel = s, !.req = LinesReq(s.hunkId, s.lines),
                                  !.patch = p])
         ELSE [base EXCEPT !.sel = s, !.req = HunksReq(s.ids),
                           !.patch = buildPatchFromHunks(files, s.ids)])

\* run, after parseDiff: the empty check and the building of the patch.
CmdBuild ==
  /\ pc = "parsed"
  /\ argv.command \in {"unstage", "discard"}
  /\ With(Built(argv, fileDiffs, out), LAMBDA b :
       /\ pc' = b.pc
       /\ sel' = b.sel
       /\ req' = b.req
       /\ patch' = b.patch
       /\ out' = b.out)
  /\ UNCHANGED <<raw, tree, hunkIdCounter, entry, fileDiffs, calls, outcome, argv,
                 sink>>

\* Math.max(a, b)
Max(a, b) == IF a >= b THEN a ELSE b

\* formatDisplayRange(file, hunk)
formatDisplayRange(file, hunk) ==
  LET span == Max(Max(hunk.oldCount, hunk.newCount), 1)
      start == IF hunk.oldStart > 0 THEN hunk.oldStart ELSE hunk.newStart
  IN  file.file[1] \o ":" \o ToString(start) \o "-" \o ToString(start + span - 1)

\* String.prototype.padStart(n), with spaces.
RECURSIVE PadStart(_, _)
PadStart(s, n) == IF Len(s) >= n THEN s ELSE PadStart(" " \o s, n)

\* A listing that numbers every line of the hunk.
RECURSIVE ListChangesEveryLine(_, _, _)
ListChangesEveryLine(lines, i, changeIndex) ==
  IF i > Len(lines) THEN <<>>
  ELSE IF lines[i].type \in {"added", "removed"}
  THEN <<"     " \o PadStart(ToString(changeIndex + 1), 3) \o "  " \o lines[i].content>>
       \o ListChangesEveryLine(lines, i + 1, changeIndex + 1)
  ELSE ListChangesEveryLine(lines, i + 1, changeIndex + 1)

\* list, the loop over hunk.lines: the added and removed lines from line i
\* on, each printed after its changeIndex.
RECURSIVE ListChanges(_, _, _)
ListChanges(lines, i, changeIndex) ==
  IF i > Len(lines) THEN <<>>
  ELSE IF lines[i].type \in {"added", "removed"}
  THEN <<"     " \o PadStart(ToString(changeIndex + 1), 3) \o "  " \o lines[i].content>>
       \o ListChanges(lines, i + 1, changeIndex + 1)
  ELSE ListChanges(lines, i + 1, changeIndex)

\* list, the body of the loop over the hunks of a file: the line of the
\* hunk and, unless --summary, its change lines and an empty line.
ListHunk(file, hunk, summary) ==
  <<"  " \o ToString(hunk.id) \o "  " \o formatDisplayRange(file, hunk)
    \o "  (+" \o ToString(hunk.addedCount) \o " -" \o ToString(hunk.removedCount) \o ")"
    \o (IF Truthy(hunk.context) THEN "  " \o hunk.context[1] ELSE "")>>
  \o (IF summary THEN <<>> ELSE ListChanges(hunk.lines, 1, 0) \o <<"">>)

\* list, the loops over the files and their hunks, from hunk j of file i on.
RECURSIVE ListFrom(_, _, _, _)
ListFrom(files, i, j, summary) ==
  IF i > Len(files) THEN <<>>
  ELSE IF j > Len(files[i].hunks) THEN ListFrom(files, i + 1, 1, summary)
  ELSE ListHunk(files[i], files[i].hunks[j], summary)
       \o ListFrom(files, i, j + 1, summary)

\* What list prints for a parsed diff (without --json).
Listed(a, files) ==
  IF Len(files) = 0
  THEN <<IF a.staged THEN "No staged changes." ELSE "No unstaged changes.">>
  ELSE <<IF a.staged THEN "Staged changes:\n" ELSE "Unstaged changes:\n">>
       \o ListFrom(files, 1, 1, a.summary)

\* list, after parseDiff: it prints and returns.
CmdList ==
  /\ pc = "parsed"
  /\ argv.command = "list"
  /\ out' = out \o Listed(argv, fileDiffs)
  /\ pc' = "done"
  /\ UNCHANGED <<raw, tree, hunkIdCounter, entry, fileDiffs, calls, req, patch,
                 outcome, argv, sel, sink>>

\* What the patch sink makes of a text piped to it in reverse: git finds no
\* patch in a text that names no file.
Sink(text) ==
  With(Target(text, TRUE), LAMBDA t :
    IF t = Null THEN Refused("") ELSE GitApply(t[1], text, TRUE))

\* The end of run: discard --dry-run prints the patch and returns; else the
\* patch goes to applyPatch, which throws when git refuses it.
CmdFinish ==
  /\ pc = "built"
  /\ argv.command \in {"unstage", "discard"}
  /\ IF argv.command = "discard" /\ argv.dryRun
     THEN /\ out' = out \o <<"Dry run - patch that would be applied (reversed):\n",
                              patch.text>>
          /\ outcome' = outcome
          /\ sink' = sink
          /\ pc' = "done"
     ELSE With(Sink(patch.text), LAMBDA r :
            /\ outcome' = [mode |-> "reverse", ok |-> r.ok, content |-> r.content]
            /\ sink' = Append(sink, SinkCall(patch.text, ApplyOptions(argv.command)))
            /\ IF ~r.ok
               THEN /\ pc' = "failed"
                    /\ out' = Append(out, "Command failed: "
                                           \o ApplyCommand(ApplyOptions(argv.command)))
               ELSE /\ pc' = "done"
                    /\ out' = IF argv.command = "discard"
                              THEN Append(out, "Discarded successfully.")
                              ELSE IF ~Truthy(argv.matching)
                              THEN Append(out, "Unstaged successfully.")
                              ELSE out)
  /\ UNCHANGED <<raw, tree, hunkIdCounter, entry, fileDiffs, calls, req, patch,
                 argv, sel>>

CmdNext == CmdStart \/ CmdGetDiff \/ Parse \/ CmdBuild \/ CmdList \/ CmdFinish

CmdSpec == CmdInit /\ [][CmdNext]_vars

(***************************************************************************)
(* The parser on its own, given the texts of the diff source and texts     *)
(* with lines that start with the hunk-range token and fail its grammar    *)
(* (as the tests give it, and as the "@@@" lines of a combined diff do).   *)
(***************************************************************************)

\* A malformed hunk-range line with the lines that follow it.
MalformedSegments ==
  {<<"@@ junk @@">>,
   <<"@@ -x +y @@", "+stray", " more">>,
   <<"@@@ -1 -1 +1,2 @@@", "++both">>}

\* The lines with a segment after line p.
Inserted(lines, p, seg) ==
  SubSeq(lines, 1, p) \o seg \o SubSeq(lines, p + 1, Len(lines))

\* The diffs a segment is put into: one file of one hunk, one of two
\* hunks, and both.
WellFormedTexts ==
  {Scenario(Rendered(shapes), TRUE).raw :
     shapes \in {<<[kind |-> "plain", hunks |-> <<HunkW>>]>>,
                 <<[kind |-> "plain", hunks |-> <<HunkA, HunkB>>]>>,
                 <<[kind |-> "plain", hunks |-> <<HunkA, HunkB>>],
                   [kind |-> "plain", hunks |-> <<HunkW>>]>>}}

\* Every such diff with a segment at any place before its final newline.
MalformedTexts ==
  UNION {{Join(Inserted(SplitLines(t), p, seg), "\n") :
            p \in 0..(Len(SplitLines(t)) - 1), seg \in MalformedSegments} :
         t \in WellFormedTexts}

\* The texts the parser is given.
ParserTexts == MalformedTexts \cup {sc.raw : sc \in Scenarios}

ParserInit ==
  /\ pc = "diff"
  /\ raw \in ParserTexts
  /\ tree = <<>>
  /\ hunkIdCounter \in {0, 2}
  /\ entry = 0
  /\ fileDiffs = <<>>
  /\ calls = 0
  /\ req = NoReq
  /\ patch = NoPatch
  /\ outcome = NoOutcome
  /\ argv = NoArgs
  /\ sel = NoSelection
  /\ out = <<>>
  /\ sink = <<>>

ParserSpec == ParserInit /\ [][Parse]_vars

(***************************************************************************)
(* The contracts of the specification, stated over the process.            *)
(***************************************************************************)

\* A line-level patch has been built.
LineBuilt == pc \in {"built", "applied"} /\ req.kind = "lines" /\ patch.ok

\* The lines of the built patch, the place of its hunk header, and the hunk
\* lines after it.
PatchLines == TextLines(patch.text)

HeaderAt == FirstIndex(PatchLines, "@@ -")

PatchBody == SubSeq(PatchLines, HeaderAt + 1, Len(PatchLines))

\* The files of the parsed diff that hold a hunk with the id asked for.
OwnerFiles ==
  {i \in 1..Len(fileDiffs) :
     \E k \in 1..Len(fileDiffs[i].hunks) : fileDiffs[i].hunks[k].id = req.hunkId}

OwnerFile == fileDiffs[CHOOSE i \in OwnerFiles : TRUE]

\* The hunk of the parsed diff with the id asked for.
AskedHunk ==
  OwnerFile.hunks[CHOOSE k \in 1..Len(OwnerFile.hunks) :
                    OwnerFile.hunks[k].id = req.hunkId]

\* The set of change-line numbers asked for.
Selected == ToSet(req.lines)

\* The number of line i of a hunk among its added and removed lines.
ChangeNumber(lines, i) ==
  Cardinality({k \in 1..i : lines[k].type \in {"added", "removed"}})

\* The lines of a hunk of given types.
OrigCount(h, types) ==
  Cardinality({i \in 1..Len(h.lines) : h.lines[i].type \in types})

\* The selection picks at least one change line of the hunk.
PicksChange ==
  \E k \in Selected : k <= OrigCount(AskedHunk, {"added", "removed"})

\* The texts (sigils stripped) of the lines of the hunk that Keep admits.
SideTexts(h, Keep(_, _)) ==
  With(SortedSeq({i \in 1..Len(h.lines) : Keep(h.lines[i], ChangeNumber(h.lines, i))}),
       LAMBDA idx : [k \in 1..Len(idx) |-> Slice(h.lines[idx[k]].content, 1)])

\* The lines of a snapshot with `count` lines from line `start` on replaced
\* by mid (an empty range stands after line `start`).
Replaced(ol, start, count, mid) ==
  With(IF count = 0 THEN start + 1 ELSE start, LAMBDA at :
    SubSeq(ol, 1, at - 1) \o mid \o SubSeq(ol, at + count, Len(ol)))

\* The two snapshots of the file of the hunk asked for.
Snapshot ==
  tree[CHOOSE i \in 1..Len(tree) : tree[i].path = OwnerFile.file[1]]

\* The old snapshot changed by exactly the selected removed and added lines.
ExpectedForward ==
  Replaced(TextLines(Snapshot.old), AskedHunk.oldStart, AskedHunk.oldCount,
           SideTexts(AskedHunk, LAMBDA l, n :
                       \/ l.type = "context"
                       \/ l.type = "removed" /\ n \notin Selected
                       \/ l.type = "added" /\ n \in Selected))

\* The new snapshot with exactly the selected changes undone: the unselected
\* added lines stay, the unselected removed lines stay away.
ExpectedReverse ==
  Replaced(TextLines(Snapshot.new), AskedHunk.newStart, AskedHunk.newCount,
           SideTexts(AskedHunk, LAMBDA l, n :
                       \/ l.type = "context"
                       \/ l.type = "removed" /\ n \in Selected
                       \/ l.type = "added" /\ n \notin Selected))

\* C1: forward (stage) application of a line-level patch.  For every hunk of
\* the parsed diff and every selection that picks a change line of it, the
\* patch buildPatchFromLines builds applies cleanly to the old snapshot the
\* diff was taken from, and the result is that snapshot changed by exactly
\* the selected removed and added lines.
C1_ForwardApplies ==
  (pc = "applied" /\ outcome.mode = "forward" /\ PicksChange)
    => outcome.ok /\ TextLines(outcome.content) = ExpectedForward

\* C2: reverse (unstage / discard) application of a line-level patch.  For
\* every hunk of the parsed diff and every selection that picks a change line
\* of it, the patch buildPatchFromLines builds applies cleanly in reverse to
\* the new snapshot of the diff, and afterwards the unselected changes are
\* still present.
C2_ReverseApplies ==
  (pc = "applied" /\ outcome.mode = "reverse" /\ PicksChange)
    => outcome.ok /\ TextLines(outcome.content) = ExpectedReverse

\* A fragment without unsupported decorations: a "diff --git a/X b/Y" line
\* with plain paths, then only header lines the parser keeps (no binary
\* marker), the "---" and "+++" lines, and at least one hunk, each with a
\* well-formed range line and sigilled lines.
SupportedFragment(chunk) ==
  With(TextLines(chunk), LAMBDA lines :
  With(FirstIndex(lines, "@@"), LAMBDA k :
    /\ k >= 4
    /\ MatchDiffGit(lines[1]) # Null
    /\ \A i \in 2..(k - 3) :
         \E p \in MetadataPrefixes \ {"Binary files"} : StartsWith(lines[i], p)
    /\ StartsWith(lines[k - 2], "--- ") /\ Len(lines[k - 2]) > 4
    /\ StartsWith(lines[k - 1], "+++ ") /\ Len(lines[k - 1]) > 4
    /\ \A i \in k..Len(lines) :
         IF StartsWith(lines[i], "@@") THEN parseHunkHeader(lines[i]) # Null
         ELSE CharAt(lines[i], 1) \in {" ", "+", "-", "\\"}))

\* A diff text without unsupported decorations.
Supported(d) ==
  /\ Trim(d) # ""
  /\ \A i \in 1..Len(SplitChunks(d)) : SupportedFragment(SplitChunks(d)[i])

\* A patch of all hunks of a supported diff has been built.
AllBuilt ==
  /\ pc = "built"
  /\ req.kind = "hunks"
  /\ req.ids = AllIds(fileDiffs)
  /\ Supported(raw)

C4_IdsIncrease ==
  \A i, j \in 1..Len(AllIds(fileDiffs)) :
    /\ AllIds(fileDiffs)[i] > 0
    /\ i < j => AllIds(fileDiffs)[i] < AllIds(fileDiffs)[j]

\* C4 is met by a result of two files and three hunks.
C4_Witness ==
  /\ pc = "parsed"
  /\ Len(fileDiffs) = 2
  /\ Len(AllHunks(fileDiffs)) >= 3

\* C5: the hunks of the list parseDiff returns are numbered 1..n in document
\* order: the first has id 1 and each following one the id before plus 1.
C5_IdsFromOne ==
  \A i \in 1..Len(AllIds(fileDiffs)) : AllIds(fileDiffs)[i] = i

\* C6: the ids parseDiff assigns depend only on its input text: whatever the
\* earlier calls of the process left in the counter, the result is the one a
\* first call (counter 0) on the same text gives.
C6_IdsDependOnInput ==
  pc # "diff" => fileDiffs = parseDiff(raw, 0).files

\* C6 is met by a call that found the counter an earlier call had advanced,
\* and returned hunks.
C6_Witness ==
  /\ pc = "parsed"
  /\ calls = 2
  /\ entry > 0
  /\ Len(AllHunks(fileDiffs)) >= 2

\* Whether change line number n of a hunk is left out of the selection.
Unselected(lines, i) == ChangeNumber(lines, i) \notin Selected

\* What the rewriting rules make of line i of a hunk.
RuleLine(lines, i) ==
  IF lines[i].type = "removed" /\ Unselected(lines, i)
  THEN " " \o Slice(lines[i].content, 1)
  ELSE lines[i].content

\* The lines the rewriting rules emit for a hunk, in the original order:
\* all but the added lines left out of the selection.
RuleLines(lines) ==
  With(SortedSeq({i \in 1..Len(lines) :
                    ~(lines[i].type = "added" /\ Unselected(lines, i))}),
       LAMBDA idx : [k \in 1..Len(idx) |-> RuleLine(lines, idx[k])])

\* C7: buildPatchFromLines rewrites the lines of the chosen hunk in order,
\* numbering only added and removed lines from 1: context lines and
\* no-newline markers are kept; a selected change line is kept; an unselected
\* removed line becomes a context line (its "-" replaced by a space); an
\* unselected added line does not appear; the order is the original one.
C7_LineRules ==
  LineBuilt =>
    patch.text = Join(SubSeq(PatchLines, 1, HeaderAt), "\n") \o "\n"
                 \o Join(RuleLines(AskedHunk.lines), "\n") \o "\n"

\* C7 is met by a hunk with a removed line left out, an added line left out
\* and a selected change line.
C7_Witness ==
  /\ LineBuilt
  /\ PicksChange
  /\ \E i, j \in 1..Len(AskedHunk.lines) :
       /\ AskedHunk.lines[i].type = "removed" /\ Unselected(AskedHunk.lines, i)
       /\ AskedHunk.lines[j].type = "added" /\ Unselected(AskedHunk.lines, j)

\* The lines of a patch body that start with one of the sigils.
SigilCount(body, sigils) ==
  Cardinality({i \in 1..Len(body) : CharAt(body[i], 1) \in sigils})

\* C8: the hunk header buildPatchFromLines emits is
\* "@@ -oldStart,oldCount +newStart,newCount @@" and the original trailing
\* context text when present: the starts are the original hunk's, oldCount is
\* the number of context plus removed lines emitted, newCount the number of
\* context plus added lines emitted; markers count toward neither.
C8_Header ==
  LineBuilt =>
    PatchLines[HeaderAt] =
      "@@ -" \o ToString(AskedHunk.oldStart) \o ","
             \o ToString(SigilCount(PatchBody, {" ", "-"}))
      \o " +" \o ToString(AskedHunk.newStart) \o ","
              \o ToString(SigilCount(PatchBody, {" ", "+"}))
      \o " @@"
      \o (IF AskedHunk.context # Null THEN " " \o AskedHunk.context[1] ELSE "")

\* C8 is met by a hunk with trailing context text, part of whose changes is
\* selected, so that a count differs from the original one.
C8_Witness ==
  /\ LineBuilt
  /\ PicksChange
  /\ AskedHunk.context # Null
  /\ SigilCount(PatchBody, {" ", "+"}) # AskedHunk.newCount

\* The header of the emitted hunk, read back.
EmittedHeader == parseHunkHeader(PatchLines[HeaderAt])[1]

\* A line-level patch has been built for the empty selection.
EmptyBuilt == LineBuilt /\ req.lines = <<>>

\* C9 as amended: for the empty selection the emitted hunk has no added and
\* no removed line, and both its oldCount and its newCount equal the number
\* of original context plus removed lines.
C9_EmptySelection ==
  EmptyBuilt =>
    /\ SigilCount(PatchBody, {"+", "-"}) = 0
    /\ EmittedHeader.oldCount = OrigCount(AskedHunk, {"context", "removed"})
    /\ EmittedHeader.newCount = OrigCount(AskedHunk, {"context", "removed"})

\* C9 is met by a hunk with context, removed, and added lines.
C9_Witness ==
  /\ EmptyBuilt
  /\ OrigCount(AskedHunk, {"context"}) > 0
  /\ OrigCount(AskedHunk, {"removed"}) > 0
  /\ OrigCount(AskedHunk, {"added"}) > 0

\* C9 as the specification words it: for the empty selection the emitted
\* hunk has no added and no removed line, its oldCount is the number of
\* original context plus removed lines, and its newCount the number of
\* original context lines only.
C9_AsWritten ==
  EmptyBuilt =>
    /\ SigilCount(PatchBody, {"+", "-"}) = 0
    /\ EmittedHeader.oldCount = OrigCount(AskedHunk, {"context", "removed"})
    /\ EmittedHeader.newCount = OrigCount(AskedHunk, {"context"})

\* C10: buildPatchFromLines finds the hunk with the given id in any file and
\* heads the patch with the header of that hunk's own file; when no hunk of
\* any file has the id it throws "Hunk <id> not found" and gives no text.
C10_FindsHunk ==
  (pc \in {"built", "applied"} /\ req.kind = "lines") =>
    IF OwnerFiles # {}
    THEN /\ patch.ok
         /\ PatchLines[1] = "diff --git " \o OwnerFile.diffOldFile[1]
                            \o " " \o OwnerFile.diffNewFile[1]
         /\ SubSeq(PatchLines, 2, HeaderAt - 3) = OwnerFile.metadataLines
         /\ PatchLines[HeaderAt - 2] = "--- " \o OwnerFile.oldFile[1]
         /\ PatchLines[HeaderAt - 1] = "+++ " \o OwnerFile.newFile[1]
    ELSE /\ ~patch.ok
         /\ patch.error = "Hunk " \o ToString(req.hunkId) \o " not found"
         /\ patch.text = ""

\* C10 is met by a hunk of the second of two files with different headers.
C10_Witness ==
  /\ pc = "built"
  /\ req.kind = "lines"
  /\ Len(fileDiffs) = 2
  /\ OwnerFiles = {2}
  /\ fileDiffs[1].metadataLines # fileDiffs[2].metadataLines

\* A hunk-level patch has been built.
HunksBuilt == pc = "built" /\ req.kind = "hunks"

\* The ids asked for that a hunk of the parsed diff has, and those none has.
PresentIds == ToSet(req.ids) \cap ToSet(AllIds(fileDiffs))

AbsentIds == ToSet(req.ids) \ ToSet(AllIds(fileDiffs))

\* The lines of the built patch that start with a prefix.
LinesWith(prefix) == {i \in 1..Len(PatchLines) : StartsWith(PatchLines[i], prefix)}

ChangeLines == OrigCount(AskedHunk, {"added", "removed"})

\* C12: line indices out of range are ignored.  For every hunk with k change
\* lines and every index set S, buildPatchFromLines throws nothing and
\* returns the text it returns for S restricted to 1..k.
C12_OutOfRangeIgnored ==
  (pc \in {"built", "applied"} /\ req.kind = "lines" /\ OwnerFiles # {}) =>
    /\ patch.ok
    /\ patch = buildPatchFromLines(fileDiffs, req.hunkId,
                                    SortedSeq(Selected \cap (1..ChangeLines)))

\* C12 is met by a selection with index 0, an index of the hunk that is not
\* its last, and an index beyond its last change line.
C12_Witness ==
  /\ LineBuilt
  /\ ChangeLines >= 2
  /\ 0 \in Selected
  /\ 1 \in Selected
  /\ ChangeLines \notin Selected
  /\ ChangeLines + 1 \in Selected

\* The files of the parsed diff that have a hunk asked for, in order.
SurvivingFiles ==
  SelectSeq(fileDiffs, LAMBDA f : \E k \in 1..Len(f.hunks) : f.hunks[k].id \in ToSet(req.ids))

\* The header line and the lines of each hunk asked for of a file, in order.
RECURSIVE HunkLinesOf(_)
HunkLinesOf(hunks) ==
  IF hunks = <<>> THEN <<>>
  ELSE (IF Head(hunks).id \in ToSet(req.ids)
        THEN <<Head(hunks).header>> \o Contents(Head(hunks).lines)
        ELSE <<>>)
       \o HunkLinesOf(Tail(hunks))

\* The lines of the blocks of the surviving files, in order.
RECURSIVE BlockLines(_)
BlockLines(files) ==
  IF files = <<>> THEN <<>>
  ELSE SplitLines(buildFileHeader(Head(files))) \o HunkLinesOf(Head(files).hunks)
       \o BlockLines(Tail(files))

\* C13: buildPatchFromHunks emits, for each file (in input order) that has a
\* hunk asked for, its file header and then exactly the hunks asked for in
\* their original order, each as its stored header line and its stored lines;
\* a file without such a hunk gives no line; the order and the repetition of
\* the ids asked for do not matter (only their set does).
C13_HunkBlocks ==
  HunksBuilt =>
    /\ patch.ok
    /\ patch.text = Join(BlockLines(SurvivingFiles), "\n") \o "\n"

\* C13 is met by two files of which one has no hunk asked for and the other
\* has one hunk asked for and one not, the ids given out of order or twice.
C13_Witness ==
  /\ HunksBuilt
  /\ Len(fileDiffs) = 2
  /\ Len(SurvivingFiles) = 1
  /\ Len(SurvivingFiles[1].hunks) = 2
  /\ Cardinality(LinesWith("@@ -")) = 1
  /\ Len(req.ids) = 2
  /\ req.ids[1] >= req.ids[2]

\* The lines of the built patch that open a file block.
BlockStarts == LinesWith("diff --git ")

\* C14: in the text buildPatchFromHunks returns for two or more surviving
\* files, a blank line stands between consecutive file blocks, and the text
\* ends with exactly one newline.
C14_BlankLineBetweenBlocks ==
  (HunksBuilt /\ Len(SurvivingFiles) >= 2) =>
    /\ \A i \in BlockStarts : i > 1 => PatchLines[i - 1] = ""
    /\ Sub(patch.text, Len(patch.text), Len(patch.text)) = "\n"
    /\ Sub(patch.text, Len(patch.text) - 1, Len(patch.text) - 1) # "\n"

\* The selector text that has been resolved ("" when there was none).
SelectorText == IF argv.selector = Null THEN "" ELSE argv.selector[1]

\* The text after the first colon of a selector.
AfterColon(str) == Slice(str, Len(SplitOn(str, ":")[1]) + 1)

\* A token that is a plain number, or a range start-end with start <= end.
PlainNumber(t) == t # "" /\ \A i \in 1..Len(t) : IsDigit(CharAt(t, i))

PlainRange(t) ==
  /\ Len(SplitOn(t, "-")) = 2
  /\ PlainNumber(SplitOn(t, "-")[1])
  /\ PlainNumber(SplitOn(t, "-")[2])
  /\ ParseInt(SplitOn(t, "-")[1]) <= ParseInt(SplitOn(t, "-")[2])

\* The numbers a plain token stands for: the number, or every number from
\* start to end.
TokenNumbers(t) ==
  IF PlainNumber(t) THEN <<ParseInt(t)>>
  ELSE [i \in 1..(ParseInt(SplitOn(t, "-")[2]) - ParseInt(SplitOn(t, "-")[1]) + 1) |->
          ParseInt(SplitOn(t, "-")[1]) + i - 1]

\* The numbers of the plain tokens of a number-spec, left to right.
RECURSIVE TokensNumbers(_)
TokensNumbers(toks) ==
  IF toks = <<>> THEN <<>> ELSE TokenNumbers(Head(toks)) \o TokensNumbers(Tail(toks))

\* Every comma-separated token of a number-spec is plain.
PlainSpec(spec) ==
  \A i \in 1..Len(SplitOn(spec, ",")) :
    PlainNumber(SplitOn(spec, ",")[i]) \/ PlainRange(SplitOn(spec, ",")[i])

\* C17: selector expansion.  A selector without a colon whose tokens are all
\* plain numbers or ranges start-end with start <= end resolves to a hunks
\* selection whose ids are the tokens expanded left to right, a range giving
\* every number from start to end; so "1,2" and "1-2" give the id set {1, 2}.
\* With a colon, a hunk part of digits and such a line part, it resolves to a
\* lines selection of that hunk id with the line part expanded the same way.
C17_Expansion ==
  (pc = "resolved" /\ argv.selector # Null) =>
    /\ (~Includes(SelectorText, ":") /\ PlainSpec(SelectorText)) =>
         /\ sel.ok
         /\ sel.type = "hunks"
         /\ sel.ids = TokensNumbers(SplitOn(SelectorText, ","))
    /\ SelectorText \in {"1,2", "1-2"} => ToSet(sel.ids) = {1, 2}
    /\ (/\ Includes(SelectorText, ":")
        /\ PlainNumber(SplitOn(SelectorText, ":")[1])
        /\ PlainSpec(AfterColon(SelectorText))) =>
         /\ sel.ok
         /\ sel.type = "lines"
         /\ sel.hunkId = ParseInt(SplitOn(SelectorText, ":")[1])
         /\ sel.lines = TokensNumbers(SplitOn(AfterColon(SelectorText), ","))

\* C17 is met by a lines selection of a number and a range of three numbers.
C17_Witness ==
  /\ pc = "resolved"
  /\ SelectorText = "1:2,0-2"
  /\ sel.ok
  /\ sel.lines = <<2, 0, 1, 2>>

\* The number-spec of a selector as the specification reads it: the whole
\* text, or all the text after the first colon.
NumberSpec == IF Includes(SelectorText, ":") THEN AfterColon(SelectorText) ELSE SelectorText

\* Its comma-separated tokens, each without the white space around it.
SpecTokens == [i \in 1..Len(SplitOn(NumberSpec, ",")) |-> Trim(SplitOn(NumberSpec, ",")[i])]

\* The error a token earns: a range error for a token with "-" that is not
\* digits-digits or descends, a number error for any other token that is
\* not digits only, none ("") for a token that is fine.
TokenError(t) ==
  IF Includes(t, "-")
  THEN IF MatchRange(t) = Null \/ ParseInt(MatchRange(t)[1][1]) > ParseInt(MatchRange(t)[1][2])
       THEN "Invalid range: " \o t ELSE ""
  ELSE IF PlainNumber(t) THEN "" ELSE "Invalid number: " \o t

\* The tokens that earn an error.
Offending == {i \in 1..Len(SpecTokens) : TokenError(SpecTokens[i]) # ""}

\* C18: selector token errors.  When a token of the number-spec is a range
\* that descends or contains "-" without being digits-digits, the resolver
\* fails with "Invalid range: <token>"; when it is otherwise not digits only
\* (or is empty), with "Invalid number: <token>"; the error is that of the
\* first such token from the left, and no selection is returned.  (The empty
\* selector has its own error, and a hunk part that is not digits comes first.)
C18_TokenErrors ==
  (/\ pc = "resolved"
   /\ SelectorText # ""
   /\ Includes(SelectorText, ":") => AllDigits(Trim(SplitOn(SelectorText, ":")[1]))
   /\ Offending # {}) =>
    /\ ~sel.ok
    /\ sel.type = "none"
    /\ sel.error = TokenError(SpecTokens[CHOOSE i \in Offending : \A j \in Offending : i <= j])

\* C19: a selector with a colon is split at the first colon only.  The text
\* before it must be digits, else the resolver fails with "Invalid hunk ID";
\* the line part is all the text after the first colon, and the resolver
\* fails unless that whole line part is a valid number-spec; a selection it
\* returns is built from the whole selector text.
C19_FirstColonOnly ==
  (pc = "resolved" /\ Includes(SelectorText, ":")) =>
    IF ~AllDigits(Trim(SplitOn(SelectorText, ":")[1]))
    THEN ~sel.ok /\ sel.error = "Invalid hunk ID: " \o SplitOn(SelectorText, ":")[1]
    ELSE IF ~expandNumberSpec(AfterColon(SelectorText)).ok
    THEN ~sel.ok
    ELSE /\ sel.ok
         /\ sel.type = "lines"
         /\ sel.lines = expandNumberSpec(AfterColon(SelectorText)).result

\* The files whose blocks a built patch holds, in order: those with a hunk
\* asked for, or the file of the one hunk asked for.
BlockFiles ==
  IF req.kind = "hunks" THEN SurvivingFiles
  ELSE IF OwnerFiles = {} THEN <<>>
  ELSE <<fileDiffs[CHOOSE i \in OwnerFiles : \A j \in OwnerFiles : i <= j]>>

\* A stored path, or the path that stands in when it is absent.
StoredOr(opt, fallback) == IF opt = Null THEN fallback ELSE opt[1]

\* The first lines a block of a file must have.
BlockHead(f) ==
  <<"diff --git " \o StoredOr(f.diffOldFile, "a/" \o f.file[1])
    \o " " \o StoredOr(f.diffNewFile, "b/" \o f.file[1])>>
  \o f.metadataLines
  \o <<"--- " \o StoredOr(f.oldFile, StoredOr(f.diffOldFile, "a/" \o f.file[1])),
       "+++ " \o StoredOr(f.newFile, StoredOr(f.diffNewFile, "b/" \o f.file[1]))>>

\* C16: every file block either builder emits starts with: one line
\* "diff --git <old> <new>" from the stored a/ and b/ paths (a/<path> and
\* b/<path> when absent), then the stored metadata lines as they are and in
\* their order, then "--- <oldPath>" and "+++ <newPath>" from the stored old
\* and new paths (the same a/ b/ pair when absent); a hunk header follows.
C16_BlockHeader ==
  (pc = "built" /\ patch.ok) =>
    /\ Cardinality(BlockStarts) = Len(BlockFiles)
    /\ \A k \in 1..Len(BlockFiles) :
         With(SortedSeq(BlockStarts)[k], LAMBDA at :
         With(BlockHead(BlockFiles[k]), LAMBDA head :
           /\ SubSeq(PatchLines, at, at + Len(head) - 1) = head
           /\ StartsWith(PatchLines[at + Len(head)], "@@ -")))

\* C16 is met by a patch of two files: one stores nothing but its path and
\* a metadata line, the other is a new file with two metadata lines.
C16_Witness ==
  /\ pc = "built"
  /\ req.kind = "hunks"
  /\ Len(BlockFiles) = 2
  /\ BlockFiles[1].diffOldFile = Null
  /\ BlockFiles[1].newFile = Null
  /\ Len(BlockFiles[1].metadataLines) = 1
  /\ BlockFiles[2].oldFile = Some("/dev/null")
  /\ Len(BlockFiles[2].metadataLines) = 2

\* The patch sink has been invoked.
SinkInvoked == outcome.mode # "none"

\* C15: the patch sink is never invoked with a patch that holds no hunk:
\* when the hunk ids asked for match no hunk, buildPatchFromHunks returns the
\* empty-patch text, and unstage and discard take it for nothing to apply
\* and do not call applyPatch.
C15_NoEmptyPatchToSink ==
  /\ (HunksBuilt /\ PresentIds = {}) => patch.text = "\n"
  /\ SinkInvoked => LinesWith("@@ -") # {}

\* C20: discard invokes the patch sink only with --yes and without
\* --dry-run.  Without both it refuses: it prints the warning and exits with
\* a failure before the diff is read or a patch is built.  With --dry-run,
\* with or without --yes, it is not refused, prints the patch it built and
\* never invokes the sink, so that working tree and index stay as they are.
C20_DiscardConfirmed ==
  argv.command = "discard" =>
    /\ SinkInvoked => argv.yes /\ ~argv.dryRun
    /\ (~argv.yes /\ ~argv.dryRun /\ pc # "start") =>
         /\ pc = "exit1"
         /\ calls = 0 /\ raw = "" /\ fileDiffs = <<>>
         /\ req = NoReq /\ patch = NoPatch
         /\ ~SinkInvoked
    /\ argv.dryRun =>
         /\ pc # "exit1"
         /\ ~SinkInvoked
         /\ (pc = "done" /\ patch.ok) => out[Len(out)] = patch.text

\* C20 is met by a preview without --yes that printed the patch of a hunk.
C20_Witness ==
  /\ argv.command = "discard"
  /\ argv.dryRun
  /\ ~argv.yes
  /\ pc = "done"
  /\ patch.ok
  /\ LinesWith("@@ -") # {}
  /\ out[Len(out)] = patch.text

\* unstage or discard runs.
Acting == argv.command \in {"unstage", "discard"}

\* The command returned without an error.
Returned0 == pc = "done"

\* C21 as written: every unstage that returns successfully, and every
\* discard --yes that does, has handed exactly one patch to the sink.
C21_AsWritten ==
  (Acting /\ Returned0 /\ (argv.command = "discard" => argv.yes)) => Len(sink) = 1

\* C21: unstage and discard hand at most one patch to the patch sink, the
\* patch they built, and exactly one when they return successfully with a
\* patch built and no --dry-run; unstage hands it with cached and reverse
\* set, so that git works on the index and never on the working tree, and
\* discard with reverse set and cached not set, so that git works on the
\* working tree and never on the index.  A command that returns without
\* a patch, or after a dry run, has handed nothing to the sink.
C21_SinkCalls ==
  Acting =>
    /\ Len(sink) <= 1
    /\ \A i \in 1..Len(sink) :
         /\ sink[i].patch = patch.text
         /\ sink[i].reverse
         /\ sink[i].cached = (argv.command = "unstage")
         /\ Touched(sink[i]) = IF argv.command = "unstage" THEN "index" ELSE "worktree"
    /\ (Returned0 /\ patch.ok /\ ~argv.dryRun) => Len(sink) = 1
    /\ (Returned0 /\ (~patch.ok \/ argv.dryRun)) => sink = <<>>

\* discard --yes has handed its patch to the sink, which changed the file
\* of the working tree.
C21_Witness ==
  /\ argv.command = "discard"
  /\ argv.yes
  /\ Returned0
  /\ Len(sink) = 1
  /\ ~sink[1].cached
  /\ outcome.ok
  /\ outcome.content # tree[1].new

\* list has printed the change lines of a diff with changes.
Listing ==
  argv.command = "list" /\ Returned0 /\ ~argv.summary /\ fileDiffs # <<>>

\* The added and removed lines of the hunk that buildPatchFromLines emits
\* for the hunk of an id and the single index k: the lines k selects.
PickedBy(id, k) ==
  With(TextLines(buildPatchFromLines(fileDiffs, id, <<k>>).text), LAMBDA ls :
  With(FirstIndex(ls, "@@ "), LAMBDA h :
    IF h = 0 THEN <<>>
    ELSE SelectSeq(SubSeq(ls, h + 1, Len(ls)),
                   LAMBDA l : StartsWith(l, "+") \/ StartsWith(l, "-"))))

\* The indices that select a line of the hunk.
Selecting(hunk) ==
  {k \in 0..(Len(hunk.lines) + 1) : PickedBy(hunk.id, k) # <<>>}

\* What the listing of a hunk must be for its indices to be the builder's:
\* index k stands before the one line that k selects.
RECURSIVE ListedByBuilder(_, _, _)
ListedByBuilder(files, i, j) ==
  IF i > Len(files) THEN <<>>
  ELSE IF j > Len(files[i].hunks) THEN ListedByBuilder(files, i + 1, 1)
  ELSE With(files[i].hunks[j], LAMBDA hunk :
         <<Head(ListHunk(files[i], hunk, TRUE))>>
         \o [k \in 1..Cardinality(Selecting(hunk)) |->
               "     " \o PadStart(ToString(k), 3) \o "  "
               \o Join(PickedBy(hunk.id, k), "|")]
         \o <<"">>)
       \o ListedByBuilder(files, i, j + 1)

\* C22: the index list prints before a change line of a hunk is the index
\* that selects exactly that line in buildPatchFromLines: for every hunk the
\* indices that select a line are 1..K, each selects one line, and the
\* listing shows, in order, index k before the line that k selects.
C22_ListIndexIsBuilderIndex ==
  Listing =>
    /\ \A h \in 1..Len(AllHunks(fileDiffs)) :
         With(AllHunks(fileDiffs)[h], LAMBDA hunk :
           /\ Selecting(hunk) = 1..Cardinality(Selecting(hunk))
           /\ \A k \in Selecting(hunk) : Len(PickedBy(hunk.id, k)) = 1)
    /\ Tail(out) = ListedByBuilder(fileDiffs, 1, 1)

\* list has printed a hunk that starts with a context line, has a
\* no-newline marker between two change lines, and two change lines.
C22_Witness ==
  /\ Listing
  /\ \E h \in 1..Len(AllHunks(fileDiffs)) :
       With(AllHunks(fileDiffs)[h].lines, LAMBDA ls :
         /\ ls[1].type = "context"
         /\ \E i \in 1..Len(ls), j \in 1..Len(ls), m \in 1..Len(ls) :
              /\ i < m /\ m < j
              /\ ls[i].type = "removed"
              /\ ls[m].type = "no-newline"
              /\ ls[j].type = "added")
  /\ Len(out) >= 4

\* The text the diff source returned has no line that passes the grammar
\* of the hunk-range line.
NoParseableHunk ==
  \A i \in 1..Len(SplitLines(raw)) :
    ~(StartsWith(SplitLines(raw)[i], "@@") /\ parseHunkHeader(SplitLines(raw)[i]) # Null)

\* The command has parsed the text of the diff source.
HasParsed == calls > 0 /\ pc \notin {"start", "exit1", "confirmed", "diff"}

\* What a command prints when there is nothing to show or to do.
NothingToDo ==
  CASE argv.command = "unstage" -> "No staged changes to unstage."
    [] argv.command = "discard" -> "No unstaged changes to discard."
    [] argv.command = "list" ->
         IF argv.staged THEN "No staged changes." ELSE "No unstaged changes."

\* C23: when the text of the diff source has no parseable hunk, parse
\* returns the empty list; and with an empty list a command that has gone
\* on from the parse has returned successfully with the one line that says
\* so, without resolving the selector, building a patch or calling the
\* patch sink.
C23_NoChangesIsResult ==
  (HasParsed /\ argv.command \in {"list", "unstage", "discard"}) =>
    /\ NoParseableHunk => fileDiffs = <<>>
    /\ (fileDiffs = <<>> /\ pc # "parsed") =>
         /\ Returned0
         /\ out = <<NothingToDo>>
         /\ sel = NoSelection
         /\ req = NoReq
         /\ patch = NoPatch
         /\ outcome = NoOutcome
         /\ sink = <<>>

\* unstage was given a selector that is no selector and a diff that only
\* renames a file: it has returned with "No staged changes to unstage.".
C23_Witness ==
  /\ argv.command = "unstage"
  /\ argv.selector = Some("x")
  /\ ~argv.all
  /\ argv.matching = Null
  /\ Len(raw) > 1
  /\ NoParseableHunk
  /\ Returned0
  /\ out = <<"No staged changes to unstage.">>

\* unstage or discard has gone by --matching, with a regular expression,
\* on a diff with changes.
ByMatching ==
  /\ Acting
  /\ HasParsed
  /\ pc # "parsed"
  /\ fileDiffs # <<>>
  /\ ~argv.all
  /\ Truthy(argv.matching)
  /\ ~RegexThrown(argv.matching[1])

\* The hunks with an added or removed line (a line with the sigil "+" or
\* "-") that holds the letter of the regex, in order.
WithChangeMatch ==
  SelectSeq(AllHunks(fileDiffs), LAMBDA h :
    \E i \in 1..Len(h.lines) :
      /\ CharAt(h.lines[i].content, 1) \in {"+", "-"}
      /\ \E k \in 2..Len(h.lines[i].content) :
           CharAt(h.lines[i].content, k) = argv.matching[1])

\* The hunk-range lines of a patch text, in order.
RangeLines(text) ==
  SelectSeq(TextLines(text), LAMBDA l : StartsWith(l, "@@ "))

\* C24: --matching selects exactly the hunks with an added or removed line
\* that matches: the patch built holds those hunks and no other, so a hunk
\* that matches only in its context lines is left out; when no hunk is
\* selected the command prints "No ... hunks matching" and returns without
\* a patch and without calling the patch sink.
C24_MatchingSelects ==
  ByMatching =>
    IF WithChangeMatch = <<>>
    THEN /\ Returned0
         /\ out = <<"No " \o (IF argv.command = "unstage" THEN "staged " ELSE "")
                     \o "hunks matching /" \o argv.matching[1] \o "/.">>
         /\ patch = NoPatch
         /\ sink = <<>>
    ELSE /\ req.kind = "hunks"
         /\ req.ids = [i \in 1..Len(WithChangeMatch) |-> WithChangeMatch[i].id]
         /\ patch.ok
         /\ RangeLines(patch.text)
              = [i \in 1..Len(WithChangeMatch) |-> WithChangeMatch[i].header]

\* --matching a on a file of two hunks, of which the first removes the line
\* a and the second has it as context: the patch of the first hunk alone has
\* gone to the sink.
C24_Witness ==
  /\ ByMatching
  /\ argv.matching = Some("a")
  /\ Len(AllHunks(fileDiffs)) = 2
  /\ \E i \in 1..Len(AllHunks(fileDiffs)[2].lines) :
       AllHunks(fileDiffs)[2].lines[i].content = " a"
  /\ req.ids = <<1>>
  /\ Returned0
  /\ Len(sink) = 1
  /\ outcome.ok

\* Line i of the text starts with "@@" and fails the grammar.
MalformedAt(lines, i) ==
  StartsWith(lines[i], "@@") /\ parseHunkHeader(lines[i]) = Null

\* Line i of the text starts with "@@" and passes the grammar.
WellFormedAt(lines, i) ==
  StartsWith(lines[i], "@@") /\ parseHunkHeader(lines[i]) # Null

\* Line i belongs to a malformed line: the last line up to i that starts
\* with "@@" or starts a file fragment is malformed.
UnderMalformed(lines, i) ==
  \E j \in 1..i :
    /\ MalformedAt(lines, j)
    /\ \A k \in (j + 1)..i :
         ~StartsWith(lines[k], "@@") /\ ~StartsWith(lines[k], "diff --git ")

\* The text without its malformed lines and the lines up to the next
\* hunk-range line (or the end of the file fragment).
Without(text) ==
  With(SplitLines(text), LAMBDA lines :
  With({k \in 1..Len(lines) : ~UnderMalformed(lines, k)}, LAMBDA keep :
    Join([n \in 1..Cardinality(keep) |->
            lines[CHOOSE k \in keep : Cardinality({m \in keep : m <= k}) = n]],
         "\n")))

\* The hunks of all file fragments of the text, those of the fragments
\* that parseDiff leaves out of its result too.
FragmentHunks(text) == AllHunks(MapParse(SplitChunks(text), resetHunkIds(entry)).files)

\* C25: a line that starts with "@@" and fails the grammar yields no hunk
\* and takes no hunk id, and the parse goes on: the hunks of the result are
\* those of the same text without the malformed lines and the lines up to
\* the next hunk-range line; every well-formed hunk-range line yields a
\* hunk, and the hunks of the fragments have the ids 1, 2, ... in order.
C25_MalformedSkipped ==
  (pc = "parsed" /\ \E i \in 1..Len(SplitLines(raw)) : MalformedAt(SplitLines(raw), i)) =>
    /\ AllHunks(fileDiffs) = AllHunks(parseDiff(Without(raw), entry).files)
    /\ Len(FragmentHunks(raw))
         = Cardinality({i \in 1..Len(SplitLines(raw)) : WellFormedAt(SplitLines(raw), i)})
    /\ \A n \in 1..Len(FragmentHunks(raw)) : FragmentHunks(raw)[n].id = n

\* A text has been parsed in which a malformed line stands between two
\* well-formed hunk-range lines of one file.
C25_Witness ==
  /\ pc = "parsed"
  /\ With(SplitLines(raw), LAMBDA lines :
       \E i \in 1..Len(lines), j \in 1..Len(lines), k \in 1..Len(lines) :
         /\ i < j /\ j < k
         /\ WellFormedAt(lines, i)
         /\ MalformedAt(lines, j)
         /\ WellFormedAt(lines, k)
         /\ \A m \in i..k : ~StartsWith(lines[m], "diff --git "))
  /\ Len(AllHunks(fileDiffs)) >= 2

\* fileDiffs is the result of parsing raw.
ParsedRaw == pc = "parsed"

\* A FileDiff without the ids of its hunks.
Unnumbered(f) ==
  [f EXCEPT !.hunks = [j \in 1..Len(f.hunks) |-> [f.hunks[j] EXCEPT !.id = 0]]]

\* The file fragments of the text, each parsed on its own.
Fragments ==
  With(SplitChunks(raw), LAMBDA chunks :
    [i \in 1..Len(chunks) |-> parseFileDiff(chunks[i], 0).fd])

\* Those with a hunk and a display path, in order.
FragmentsKept ==
  SelectSeq(Fragments, LAMBDA f :
    f.hunks # <<>> /\ f.file # Null /\ f.file # Some(""))

OldSide(hunk) ==
  SelectSeq(hunk.lines, LAMBDA l : l.type \in {"context", "removed"})

NewSide(hunk) ==
  SelectSeq(hunk.lines, LAMBDA l : l.type \in {"context", "added"})

\* C27: in every parsed hunk the old line numbers of the context and
\* removed lines are oldStart, oldStart + 1, ... in line order and the new
\* line numbers of the context and added lines newStart, newStart + 1, ...;
\* an added line has no old number, a removed line no new number, and a
\* no-newline marker has neither (and, the numbers having no gap, advances
\* neither counter).
C27_LineNumbers ==
  ParsedRaw =>
    \A h \in 1..Len(AllHunks(fileDiffs)) :
      With(AllHunks(fileDiffs)[h], LAMBDA hunk :
        /\ \A k \in 1..Len(OldSide(hunk)) :
             OldSide(hunk)[k].oldLine = Some(hunk.oldStart + k - 1)
        /\ \A k \in 1..Len(NewSide(hunk)) :
             NewSide(hunk)[k].newLine = Some(hunk.newStart + k - 1)
        /\ \A i \in 1..Len(hunk.lines) :
             /\ hunk.lines[i].type = "added" => hunk.lines[i].oldLine = Null
             /\ hunk.lines[i].type = "removed" => hunk.lines[i].newLine = Null
             /\ hunk.lines[i].type = "no-newline" =>
                  hunk.lines[i].oldLine = Null /\ hunk.lines[i].newLine = Null
             /\ hunk.lines[i].type \in {"context", "added", "removed", "no-newline"})

\* A hunk has been parsed with a context line, a removed line, a
\* no-newline marker and, after the marker, an added line.
C27_Witness ==
  /\ ParsedRaw
  /\ \E h \in 1..Len(AllHunks(fileDiffs)) :
       With(AllHunks(fileDiffs)[h], LAMBDA hunk :
         \E c \in 1..Len(hunk.lines), i \in 1..Len(hunk.lines),
            m \in 1..Len(hunk.lines), j \in 1..Len(hunk.lines) :
           /\ c < i /\ i < m /\ m < j
           /\ hunk.lines[c].type = "context"
           /\ hunk.lines[i].type = "removed"
           /\ hunk.lines[m].type = "no-newline"
           /\ hunk.lines[j].type = "added"
           /\ hunk.lines[j].newLine = Some(hunk.newStart + 1))

\* parseSelector or a builder has thrown.
SelectionFailed == sel.error # "" \/ patch.error # ""

\* C28: when parseSelector or a builder throws in unstage or discard, the
\* command has ended with a failure and one line of output, the message of
\* the error, and applyPatch has not been called: the patch sink has been
\* handed nothing, so the index and the working tree are as they were.
C28_ErrorsBeforeSink ==
  (Acting /\ SelectionFailed) =>
    /\ pc = "failed"
    /\ sink = <<>>
    /\ outcome = NoOutcome
    /\ Len(out) = 1
    /\ out[1] = (IF sel.error # "" THEN sel.error ELSE patch.error)
    /\ ~Includes(out[1], "\n")

\* discard --yes 2:1 on a diff of one hunk: buildPatchFromLines has thrown
\* "Hunk 2 not found" and the command has failed.
C28_Witness ==
  /\ argv.command = "discard"
  /\ argv.yes
  /\ argv.selector = Some("2:1")
  /\ sel.ok
  /\ patch.error = "Hunk 2 not found"
  /\ pc = "failed"
  /\ out = <<"Hunk 2 not found">>
  /\ sink = <<>>

\* The places of the no-newline markers in a sequence of diff lines.
MarkerPlaces(ls) == SortedSeq({i \in 1..Len(ls) : StartsWith(ls[i], "\\")})

\* The lines of the hunk asked for, as the diff had them.
AskedBody == [i \in 1..Len(AskedHunk.lines) |-> AskedHunk.lines[i].content]

\* C29: in the hunk buildPatchFromLines emits, every no-newline marker
\* stands directly after the line it stood after in the original hunk (the
\* same text, kept as it was or demoted to context): the n-th marker of the
\* emitted hunk follows the line the n-th marker of the original follows.
C29_MarkersStayAttached ==
  LineBuilt =>
    /\ Len(MarkerPlaces(PatchBody)) = Len(MarkerPlaces(AskedBody))
    /\ \A n \in 1..Len(MarkerPlaces(PatchBody)) :
         /\ MarkerPlaces(PatchBody)[n] > 1
         /\ Slice(PatchBody[MarkerPlaces(PatchBody)[n] - 1], 1)
              = Slice(AskedBody[MarkerPlaces(AskedBody)[n] - 1], 1)

\* unstage or discard has gone on from a parsed diff with changes.
Selecting0 == Acting /\ HasParsed /\ pc # "parsed" /\ fileDiffs # <<>>

====
